---- MODULE Spec2Model ----
(***************************************************************************)
(* Customer dashboard (moi-7/Dashboard): the CustomerTable component, its  *)
(* preference persistence, record store, query pipeline and the chart      *)
(* aggregations of CustomerCharts.                                         *)
(*                                                                         *)
(* Conventions                                                             *)
(*   - JavaScript strings that the code inspects (names, e-mails, tags)    *)
(*     are sequences of one-character strings.                             *)
(*   - Instants are minutes since the Unix epoch (UTC).  Every instant the *)
(*     code compares is minute aligned except the 23:59:59.999 produced by *)
(*     setHours, which is compared only with minute aligned instants and   *)
(*     is therefore represented by 23:59 of the same local day.            *)
(*   - tz is the offset of local time from UTC in minutes (east positive). *)
(*   - A JavaScript Set is the sequence of its members in insertion order. *)
(***************************************************************************)
EXTENDS Integers, Sequences, FiniteSets, TLC

VARIABLES
    pc,              \* position in the mount sequence of CustomerTable
    prefs,           \* the nine tracked useState preference fields
    prefsLoaded,     \* useState(false), CustomerTable.tsx:43
    queued,          \* state updates queued by the mount effects, not yet rendered
    storage,         \* localStorage[STORAGE_KEY]
    data,            \* useState<Customer[]>, the Record Store
    searchQuery,     \* useState('')
    selectedIds,     \* useState<Set<string>>
    nextId,          \* the next value faker.string.uuid() returns
    isModalOpen,     \* useState(false)
    editingCustomer, \* useState<Customer | null>: <<>> or <<customer>>
    pendingSubmit,   \* the handleFormSubmit call waiting in its 600 ms delay
    errors,          \* formState.errors of useForm: the fields with an error
    inflight,        \* the files Papa.parse is still working on
    toast,           \* the most recent toast
    charts,          \* the useMemo values of CustomerCharts: stats, tagData, activityData
    columns,         \* the useMemo value columns: the ids of the filteredData its
                     \* handleToggleAll closes over
    tz,              \* local time-zone offset of the browser (environment)
    monthLabel,      \* how the default locale writes {month:'short', year:'2-digit'}
    now,             \* wall clock
    bootBlob,        \* history: storage as it was when this page load started
    firstWrite,      \* history: the first blob written since this page load
    ops,             \* number of user operations run so far
    budget,          \* the number of user operations explored
    reloads          \* number of page reloads so far

prefVars == <<prefs, prefsLoaded, queued, storage>>
histVars == <<bootBlob, firstWrite, ops, budget, reloads>>
envVars == <<tz, monthLabel, now>>
storeVars == <<data, searchQuery, selectedIds, nextId, charts, columns>>
uiVars == <<isModalOpen, editingCustomer, pendingSubmit, errors, inflight, toast>>
vars == <<pc, prefVars, storeVars, uiVars, envVars, histVars>>

----------------------------------------------------------------------------
(* Bounds of the model *)

MaxPrefOps == 2
MaxReloads == 1

\* User operations on the record store in one behaviour.
MaxStoreOps == 3

\* Changes of the filter state in one behaviour.
MaxQueryOps == 3

\* User operations in one behaviour of the chart specification.
MaxChartOps == 2

\* Ticks and deletions in one behaviour of the statistics specification.
MaxStatsOps == 3

\* User operations in one behaviour of the aggregation specification.
MaxAggOps == 2

\* User operations in one behaviour of the deletion specification.
MaxDeleteOps == 4

\* User operations in one behaviour of the selection specification.
MaxSelectOps == 4

\* User operations in one behaviour of the edit form specification.
MaxEditOps == 3

----------------------------------------------------------------------------
(* Strings *)

S_All == <<"A", "l", "l">>
S_Lead == <<"L", "e", "a", "d">>
S_Partner == <<"P", "a", "r", "t", "n", "e", "r">>
S_VIP == <<"V", "I", "P">>

\* The tags offered by the filter menu (a subset of the source's seven).
AVAILABLE_TAGS == <<S_All, S_Lead, S_Partner>>

DEFAULT_WIDGET_ORDER == <<"stats", "line", "bar", "pie">>

DEFAULT_WIDGET_SIZES == [stats |-> "full", line |-> "full", bar |-> "half", pie |-> "half"]

Range(s) == {s[i] : i \in DOMAIN s}

----------------------------------------------------------------------------
(* Preferences: defaults, serialization, load *)

\* The useState initial values of the tracked fields.
DefaultPrefs ==
    [rowsPerPage |-> 10,
     activeRoleFilter |-> S_All,
     hiddenColumns |-> <<"avatar">>,
     dateRange |-> [start |-> <<>>, end |-> <<>>],
     visibleCharts |-> [stats |-> TRUE, bar |-> TRUE, pie |-> TRUE, line |-> TRUE],
     chartTheme |-> "indigo",
     customColor |-> "#4f46e5",
     widgetOrder |-> DEFAULT_WIDGET_ORDER,
     widgetSizes |-> DEFAULT_WIDGET_SIZES]

\* One property of the parsed JSON object.  k = "ok": present with a value of
\* the field's type; "absent": the property is missing (undefined);
\* "bad": present, truthy, but neither an array nor iterable (e.g. 5).
Field(k, v) == [k |-> k, v |-> v]

\* new Set(array): members in first-occurrence order.
RECURSIVE NewSet(_)
NewSet(arr) ==
    IF arr = <<>> THEN <<>>
    ELSE LET init == NewSet(SubSeq(arr, 1, Len(arr) - 1))
             last == arr[Len(arr)]
         IN IF last \in Range(init) THEN init ELSE Append(init, last)

\* Array.from(set)
ArrayFrom(set) == set

\* Mutant of Serialize: hiddenColumns saved without Array.from; a Set
\* stringifies as {}, which is not iterable when read back.
SerializeRawSet(p) ==
    [kind |-> "json",
     f |-> [rowsPerPage |-> Field("ok", p.rowsPerPage),
            activeRoleFilter |-> Field("ok", p.activeRoleFilter),
            hiddenColumns |-> Field("bad", <<>>),
            dateRange |-> Field("ok", p.dateRange),
            visibleCharts |-> Field("ok", p.visibleCharts),
            chartTheme |-> Field("ok", p.chartTheme),
            customColor |-> Field("ok", p.customColor),
            widgetOrder |-> Field("ok", p.widgetOrder),
            widgetSizes |-> Field("ok", p.widgetSizes)]]

\* prefsToSave and JSON.stringify of it.
Serialize(p) ==
    [kind |-> "json",
     f |-> [rowsPerPage |-> Field("ok", p.rowsPerPage),
            activeRoleFilter |-> Field("ok", p.activeRoleFilter),
            hiddenColumns |-> Field("ok", ArrayFrom(p.hiddenColumns)),
            dateRange |-> Field("ok", p.dateRange),
            visibleCharts |-> Field("ok", p.visibleCharts),
            chartTheme |-> Field("ok", p.chartTheme),
            customColor |-> Field("ok", p.customColor),
            widgetOrder |-> Field("ok", p.widgetOrder),
            widgetSizes |-> Field("ok", p.widgetSizes)]]

\* What localStorage holds when the key is missing.
NoBlob == [kind |-> "none", f |-> Serialize(DefaultPrefs).f]

\* A stored string that JSON.parse rejects.
GarbageBlob == [kind |-> "garbage", f |-> Serialize(DefaultPrefs).f]

\* JavaScript truthiness of parsed.<field>.
TruthyNum(fl) == fl.k = "bad" \/ (fl.k = "ok" /\ fl.v # 0)

TruthyStr(fl) == fl.k = "bad" \/ (fl.k = "ok" /\ fl.v # "")

TruthySeq(fl) == fl.k = "bad" \/ (fl.k = "ok" /\ fl.v # <<>>)

TruthyObj(fl) == fl.k # "absent"

\* The body of the load effect: the state updates it queues on top of p0.
\* new Set(x) throws for a value that is not iterable; the single try/catch
\* around all nine statements then skips the statements after it.
LoadPrefs(blob, p0) ==
    IF blob.kind # "json" THEN p0
    ELSE
      LET b == blob.f
          p1 == IF TruthyNum(b.rowsPerPage)
                THEN [p0 EXCEPT !.rowsPerPage = b.rowsPerPage.v] ELSE p0
          p2 == IF TruthySeq(b.activeRoleFilter)
                THEN [p1 EXCEPT !.activeRoleFilter = b.activeRoleFilter.v] ELSE p1
      IN IF b.hiddenColumns.k = "bad" THEN p2
         ELSE
           LET p3 == IF TruthyObj(b.hiddenColumns)
                     THEN [p2 EXCEPT !.hiddenColumns = NewSet(b.hiddenColumns.v)] ELSE p2
               p4 == IF TruthyObj(b.dateRange)
                     THEN [p3 EXCEPT !.dateRange = b.dateRange.v] ELSE p3
               p5 == IF TruthyObj(b.visibleCharts)
                     THEN [p4 EXCEPT !.visibleCharts = b.visibleCharts.v] ELSE p4
               p6 == IF TruthyStr(b.chartTheme)
                     THEN [p5 EXCEPT !.chartTheme = b.chartTheme.v] ELSE p5
               p7 == IF TruthyStr(b.customColor)
                     THEN [p6 EXCEPT !.customColor = b.customColor.v] ELSE p6
               p8 == IF TruthyObj(b.widgetOrder) /\ b.widgetOrder.k = "ok"
                     THEN [p7 EXCEPT !.widgetOrder = b.widgetOrder.v] ELSE p7
               p9 == IF TruthyObj(b.widgetSizes)
                     THEN [p8 EXCEPT !.widgetSizes = b.widgetSizes.v] ELSE p8
           IN p9

\* Mutant of PrefsGate: the save effect without its guard.
PrefsGateMissing(loaded) == TRUE

\* The guard at the top of the save effect: if (!prefsLoaded) return.
PrefsGate(loaded) == loaded

\* Mutant of SaveDeps: widgetSizes left out of the dependency array.
SaveDepsWithoutSizes(p, loaded) ==
    <<p.rowsPerPage, p.activeRoleFilter, p.hiddenColumns, p.dateRange,
      p.visibleCharts, p.chartTheme, p.customColor, p.widgetOrder, loaded>>

\* The dependency array of the save effect.
SaveDeps(p, loaded) ==
    <<p.rowsPerPage, p.activeRoleFilter, p.hiddenColumns, p.dateRange,
      p.visibleCharts, p.chartTheme, p.customColor, p.widgetOrder,
      p.widgetSizes, loaded>>

\* The save effect run in a render whose state is (p, loaded): the value of
\* the storage key after it.
SaveEffect(p, loaded, st) ==
    IF PrefsGate(loaded) THEN Serialize(p) ELSE st

----------------------------------------------------------------------------
(* Dates *)

\* 2024-10-04 as a day number (days since 1970-01-01).
Day0 == 20 * 1000

MinutesPerDay == 24 * 60

\* A JavaScript Date: a time value, or NaN (Invalid Date).
DateAt(t) == [valid |-> TRUE, t |-> t]

InvalidDate == [valid |-> FALSE, t |-> 0]

\* Relational comparison of two Dates (valueOf each); any comparison with
\* NaN is false.
DateGe(a, b) == a.valid /\ b.valid /\ a.t >= b.t

DateLe(a, b) == a.valid /\ b.valid /\ a.t <= b.t

\* The local calendar day an instant falls on.
LocalDay(t) == (t + tz) \div MinutesPerDay

\* A lastContacted text: "Oct 4, 2024" names a calendar day; any other text
\* does not parse.
DateText(day) == [parses |-> TRUE, day |-> day]

JunkText == [parses |-> FALSE, day |-> 0]

\* date.toLocaleDateString('en-US', {month: 'short', day: 'numeric', year: 'numeric'})
ToLocaleDateString(t) == DateText(LocalDay(t))

\* A parse that falls back to the epoch for text that is not a date.
NewDateFromTextOrEpoch(s) ==
    IF s.parses THEN DateAt(s.day * MinutesPerDay - tz) ELSE DateAt(0)

\* new Date("Oct 4, 2024"): local midnight of that day; NaN for other text.
NewDateFromText(s) ==
    IF s.parses THEN DateAt(s.day * MinutesPerDay - tz) ELSE InvalidDate

\* new Date("2024-10-04"): a date-only ISO string is UTC midnight.
NewDateFromISO(iso) == DateAt(iso[1] * MinutesPerDay)

\* end.setHours(23, 59, 59, 999): the last instant of the local day of d.
SetHoursEndOfDay(d) ==
    DateAt(LocalDay(d.t) * MinutesPerDay + (MinutesPerDay - 1) - tz)

----------------------------------------------------------------------------
(* Text *)

UpperChars ==
    <<"A", "B", "C", "D", "E", "F", "G", "H", "I", "J", "K", "L", "M",
      "N", "O", "P", "Q", "R", "S", "T", "U", "V", "W", "X", "Y", "Z">>

LowerChars ==
    <<"a", "b", "c", "d", "e", "f", "g", "h", "i", "j", "k", "l", "m",
      "n", "o", "p", "q", "r", "s", "t", "u", "v", "w", "x", "y", "z">>

LowerChar(c) ==
    IF \E i \in DOMAIN UpperChars : UpperChars[i] = c
    THEN LowerChars[CHOOSE i \in DOMAIN UpperChars : UpperChars[i] = c]
    ELSE c

\* String.prototype.toLowerCase
ToLowerCase(s) == [i \in DOMAIN s |-> LowerChar(s[i])]

\* String.prototype.includes
Includes(hay, needle) ==
    \E i \in 1..(Len(hay) - Len(needle) + 1) :
        SubSeq(hay, i, i + Len(needle) - 1) = needle

\* Array.prototype.includes
ArrayIncludes(arr, x) == \E i \in DOMAIN arr : arr[i] = x

----------------------------------------------------------------------------
(* Query engine: filteredData, CustomerTable.tsx:149-178 *)

\* A text search that compares the characters as they are.
MatchesSearchCaseSensitive(item, q) ==
    Includes(item.name, q) \/ Includes(item.email, q)

\* The predicate of the text search filter.
MatchesSearch(item, q) ==
    \/ Includes(ToLowerCase(item.name), ToLowerCase(q))
    \/ Includes(ToLowerCase(item.email), ToLowerCase(q))

\* The predicate of the tag filter.
MatchesTag(item, tag) == ArrayIncludes(item.tags, tag)

\* The predicate of the date range filter.
MatchesDateRange(item, range) ==
    LET itemDate == NewDateFromText(item.lastContacted)
        start == IF range.start # <<>> THEN NewDateFromISO(range.start)
                 ELSE NewDateFromISO(<<0>>)          \* new Date('1970-01-01')
        end0 == IF range.end # <<>> THEN NewDateFromISO(range.end)
                ELSE NewDateFromISO(<<47482>>)        \* new Date('2100-01-01')
        end == SetHoursEndOfDay(end0)
    IN DateGe(itemDate, start) /\ DateLe(itemDate, end)

\* A search stage that lower-cases the names of the records it keeps.
FilteredDataLowercased(d, q, tag, range) ==
    LET r1 == IF q # <<>>
              THEN LET kept == SelectSeq(d, LAMBDA item : MatchesSearch(item, q))
                   IN [i \in DOMAIN kept |-> [kept[i] EXCEPT !.name = ToLowerCase(@)]]
              ELSE d
        r2 == IF tag # S_All
              THEN SelectSeq(r1, LAMBDA item : MatchesTag(item, tag)) ELSE r1
        r3 == IF range.start # <<>> \/ range.end # <<>>
              THEN SelectSeq(r2, LAMBDA item : MatchesDateRange(item, range)) ELSE r2
    IN r3

\* A text search that keeps the best hit only.
SearchStageTopHit(result, q) ==
    IF q # <<>>
    THEN LET hits == SelectSeq(result, LAMBDA item : MatchesSearch(item, q))
         IN IF hits = <<>> THEN <<>> ELSE <<Head(hits)>>
    ELSE result

\* if (searchQuery) result = result.filter(...)
SearchStage(result, q) ==
    IF q # <<>> THEN SelectSeq(result, LAMBDA item : MatchesSearch(item, q)) ELSE result

\* if (activeRoleFilter !== 'All') result = result.filter(...)
TagStage(result, tag) ==
    IF tag # S_All THEN SelectSeq(result, LAMBDA item : MatchesTag(item, tag)) ELSE result

\* if (dateRange.start || dateRange.end) result = result.filter(...)
DateStage(result, range) ==
    IF range.start # <<>> \/ range.end # <<>>
    THEN SelectSeq(result, LAMBDA item : MatchesDateRange(item, range)) ELSE result

FilteredData(d, q, tag, range) == DateStage(TagStage(SearchStage(d, q), tag), range)

\* filteredData of the current render.
filteredData == FilteredData(data, searchQuery, prefs.activeRoleFilter, prefs.dateRange)

----------------------------------------------------------------------------
(* Aggregation engine: CustomerCharts stats, tagData, activityData *)

\* filter(...).length, given the sequence of the predicate's values.
RECURSIVE CountTrue(_)
CountTrue(bits) ==
    IF bits = <<>> THEN 0
    ELSE (IF bits[1] THEN 1 ELSE 0) + CountTrue(Tail(bits))

\* stats, evaluated at instant t.  thirtyDaysAgo is a second new Date() moved
\* back 30 calendar days by setDate; it keeps the time of day.
Stats(d, t) ==
    LET thirtyDaysAgo == DateAt(t - 30 * MinutesPerDay)
    IN [total |-> Len(d),
        leads |-> CountTrue([i \in DOMAIN d |-> ArrayIncludes(d[i].tags, S_Lead)]),
        partners |-> CountTrue([i \in DOMAIN d |-> ArrayIncludes(d[i].tags, S_Partner)]),
        recentContacts |->
            CountTrue([i \in DOMAIN d |->
                DateGe(NewDateFromText(d[i].lastContacted), thirtyDaysAgo)])]

\* All tags of all records, in scan order.
RECURSIVE TagScan(_)
TagScan(d) ==
    IF d = <<>> THEN <<>> ELSE d[1].tags \o TagScan(Tail(d))

Digits == <<"0", "1", "2", "3", "4", "5", "6", "7", "8", "9">>

IsDigit(c) == \E i \in DOMAIN Digits : Digits[i] = c

DigitVal(c) == (CHOOSE i \in DOMAIN Digits : Digits[i] = c) - 1

RECURSIVE NumVal(_)
NumVal(s) ==
    IF s = <<>> THEN 0 ELSE NumVal(SubSeq(s, 1, Len(s) - 1)) * 10 + DigitVal(s[Len(s)])

\* Whether a property key is an array index ("0", "7", "42"; not "07"):
\* such keys are enumerated first, in ascending numeric order.  Keys of
\* more than nine digits lie beyond the model's tags.
IsIndexKey(s) ==
    /\ s # <<>>
    /\ Len(s) <= 9
    /\ \A i \in DOMAIN s : IsDigit(s[i])
    /\ (Len(s) > 1 => s[1] # "0")

\* Insert key k into a sequence of index keys kept in ascending order.
RECURSIVE InsertIndexKey(_, _)
InsertIndexKey(keys, k) ==
    IF keys = <<>> THEN <<k>>
    ELSE IF NumVal(k) < NumVal(keys[1]) THEN <<k>> \o keys
    ELSE <<keys[1]>> \o InsertIndexKey(Tail(keys), k)

RECURSIVE SortIndexKeys(_)
SortIndexKeys(keys) ==
    IF keys = <<>> THEN <<>>
    ELSE InsertIndexKey(SortIndexKeys(SubSeq(keys, 1, Len(keys) - 1)), keys[Len(keys)])

\* Object.keys / Object.entries order of an object whose string keys were
\* created in the order given.
OwnKeys(created) ==
    SortIndexKeys(SelectSeq(created, IsIndexKey))
        \o SelectSeq(created, LAMBDA k : ~IsIndexKey(k))

\* A number that may be NaN.
Num(v) == [nan |-> FALSE, v |-> v]

NaN == [nan |-> TRUE, v |-> 0]

\* comparator(a, b) < 0 for the comparator (a, b) => key(a) - key(b): false
\* whenever the difference is NaN.
KeyLess(a, b) == ~a.nan /\ ~b.nan /\ a.v < b.v

\* Array.prototype.sort (stable) of entries [key, item] by ascending key:
\* an entry is inserted after every entry it does not compare less than.
RECURSIVE InsertSorted(_, _)
InsertSorted(sorted, e) ==
    IF sorted = <<>> THEN <<e>>
    ELSE IF KeyLess(e.key, sorted[Len(sorted)].key)
         THEN Append(InsertSorted(SubSeq(sorted, 1, Len(sorted) - 1), e),
                     sorted[Len(sorted)])
         ELSE Append(sorted, e)

RECURSIVE SortByKey(_)
SortByKey(seq) ==
    IF seq = <<>> THEN <<>>
    ELSE InsertSorted(SortByKey(SubSeq(seq, 1, Len(seq) - 1)), seq[Len(seq)])

\* .slice(0, n)
Slice0(seq, n) == SubSeq(seq, 1, IF Len(seq) < n THEN Len(seq) ELSE n)

TagData(d) ==
    LET scan == TagScan(d)
        keys == OwnKeys(NewSet(scan))
        entries == [i \in DOMAIN keys |->
                      [name |-> keys[i],
                       value |-> CountTrue([j \in DOMAIN scan |-> scan[j] = keys[i]])]]
        \* .sort((a, b) => b.value - a.value)
        sorted == SortByKey([i \in DOMAIN entries |->
                      [key |-> Num(0 - entries[i].value), item |-> entries[i]]])
    IN Slice0([i \in DOMAIN sorted |-> sorted[i].item], 5)

\* Year and month index (0 = January) of a day number (proleptic Gregorian
\* calendar, days since 1970-01-01), as getFullYear/getMonth give them for
\* the local midnight of that day.
CivilYear(era, yoe, m) == yoe + era * 400 + (IF m <= 2 THEN 1 ELSE 0)

CivilMonth(mp) == IF mp < 10 THEN mp + 3 ELSE mp - 9

CivilOfYear(era, doe, yoe) ==
    [era |-> era, yoe |-> yoe,
     m |-> CivilMonth((5 * (doe - (365 * yoe + yoe \div 4 - yoe \div 100)) + 2) \div 153)]

CivilOfEra(era, doe) ==
    CivilOfYear(era, doe, (doe - doe \div 1460 + doe \div 36524 - doe \div 146096) \div 365)

CivilOfShifted(z, era) == CivilOfEra(era, z - era * 146097)

CivilParts(z) == CivilOfShifted(z, z \div 146097)

CivilRecord(c) == [year |-> CivilYear(c.era, c.yoe, c.m), mon |-> c.m - 1]

Civil(dayNo) == CivilRecord(CivilParts(dayNo + 719468))

\* date.toLocaleString('default', {month: 'short', year: '2-digit'}): the
\* month and the last two digits of the year; monthLabel says whether the
\* locale writes it "Oct '24" ("quoted") or "Oct 24" ("plain").
MonthKey(text) ==
    LET c == Civil(text.day) IN [mon |-> c.mon, yy |-> c.year % 100]

\* sortValue of a bucket.  name.split(" '") yields [month, year] only for
\* the quoted form.  For the plain form month is the whole label ("Oct 24")
\* and year is undefined, so fullYear is parseInt("20undefined") = 20, and
\* new Date("Oct 24 1, 2000") is engine dependent: an Invalid Date
\* ("plain", the sum is NaN) or a date in the label's month ("lenient").
SortValue(key) ==
    IF monthLabel = "quoted" THEN Num((2000 + key.yy) * 100 + key.mon)
    ELSE IF monthLabel = "lenient" THEN Num(20 * 100 + key.mon)
    ELSE NaN

ActivityData(d) ==
    LET dated == SelectSeq(d, LAMBDA c : NewDateFromText(c.lastContacted).valid)
        scan == [i \in DOMAIN dated |-> MonthKey(dated[i].lastContacted)]
        keys == NewSet(scan)
        chartData == [i \in DOMAIN keys |->
                        [key |-> SortValue(keys[i]),
                         item |-> [name |-> keys[i],
                                   value |-> CountTrue([j \in DOMAIN scan |-> scan[j] = keys[i]]),
                                   sortValue |-> SortValue(keys[i])]]]
        sorted == SortByKey(chartData)
    IN [i \in DOMAIN sorted |-> sorted[i].item]

\* Charts fed with the rows the table displays.
ChartsPropFiltered(d, filtered) == filtered

\* The data prop CustomerTable passes to CustomerCharts: data={data}.
ChartsProp(d, filtered) == d

\* The three useMemo values of CustomerCharts for the prop d, computed at t.
ChartsMemo(d, t) ==
    [stats |-> Stats(d, t), tagData |-> TagData(d), activityData |-> ActivityData(d)]

\* The memo values after a render with state (d2, q2, p2).  useMemo
\* recomputes when the prop is a new array: after every setData (dataSet),
\* or when the array passed differs.
ChartsAfter(dataSet, d2, q2, p2) ==
    LET prop2 == ChartsProp(d2, FilteredData(d2, q2, p2.activeRoleFilter, p2.dateRange))
    IN IF dataSet \/ prop2 # ChartsProp(data, filteredData)
       THEN ChartsMemo(prop2, now) ELSE charts

\* const isAllSelected = filteredData.length > 0 && selectedIds.size === filteredData.length
IsAllSelected(fd, sel) == Len(fd) > 0 /\ Cardinality(sel) = Len(fd)

isAllSelected == IsAllSelected(filteredData, selectedIds)

\* The dependency list of the columns memo.  selectedIds is compared by
\* its members: a handler makes a new Set with the members of the old one
\* only when it deletes an id that is not selected, which changes
\* data.length, or when it selects all of an empty view, and a view of
\* equal length that is empty has the same ids.
ColumnsDeps(d, fd, sel, p) ==
    <<sel, Len(d), Len(fd), IsAllSelected(fd, sel), p.hiddenColumns>>

\* The columns memo after the render with state (d2, q2, p2, sel2) that
\* follows the current render: made again when a dependency differs.
ColumnsAfter(d2, q2, p2, sel2) ==
    LET fd2 == FilteredData(d2, q2, p2.activeRoleFilter, p2.dateRange)
    IN IF ColumnsDeps(d2, fd2, sel2, p2) # ColumnsDeps(data, filteredData, selectedIds, prefs)
       THEN [i \in DOMAIN fd2 |-> fd2[i].id]
       ELSE columns

----------------------------------------------------------------------------
(* Records *)

Customer(id, name, avatar, email, phone, tags, lastContacted) ==
    [id |-> id, name |-> name, avatar |-> avatar, email |-> email,
     phone |-> phone, tags |-> tags, lastContacted |-> lastContacted]

\* `${firstName} ${lastName}`
FullName(first, last) == first \o <<" ">> \o last

\* The number of customers the mount effect generates (30 in the source).
InitialCustomers == 2

\* What faker can produce for one generated customer: a name, an e-mail,
\* one or two tags, and a contact date daysAgo days before today.
Person(first, last, email, tags, daysAgo) ==
    [name |-> FullName(first, last), email |-> email, tags |-> tags, daysAgo |-> daysAgo]

PeopleOne == {Person(<<"A", "l">>, <<"B", "o">>, <<"a", "@", "x">>, <<S_Lead>>, 3)}

\* The customers of the mount effect: ids fresh, one person each.
GeneratedCustomers(people, firstId) ==
    {[i \in 1..InitialCustomers |->
        Customer(firstId + i - 1, who[i].name, "avatar", who[i].email, "phone",
                 who[i].tags,
                 ToLocaleDateString(now - who[i].daysAgo * MinutesPerDay))]
     : who \in [1..InitialCustomers -> people]}

----------------------------------------------------------------------------
(* Mount sequence of CustomerTable *)

Toast(kind, text, n) == [kind |-> kind, text |-> text, n |-> n]

NoToast == Toast("none", "", 0)

\* State of a freshly mounted component over the given storage and clock.
Mounted(st, zone, label, t, b, r, o) ==
    /\ pc = "mounted"
    /\ prefs = DefaultPrefs
    /\ prefsLoaded = FALSE
    /\ queued = DefaultPrefs
    /\ storage = st
    /\ data = <<>>
    /\ searchQuery = <<>>
    /\ selectedIds = {}
    /\ nextId = 1
    /\ charts = ChartsMemo(<<>>, t)
    /\ columns = <<>>
    /\ isModalOpen = FALSE
    /\ editingCustomer = <<>>
    /\ pendingSubmit = <<>>
    /\ errors = {}
    /\ inflight = <<>>
    /\ toast = NoToast
    /\ tz = zone
    /\ monthLabel = label
    /\ now = t
    /\ bootBlob = st
    /\ firstWrite = <<>>
    /\ ops = o
    /\ budget = b
    /\ reloads = r

\* The value of the storage key after the save effect of a render with state
\* (p2, l2) that follows a render with state (prefs, prefsLoaded).  The
\* effect runs when a dependency differs.
SaveRuns(p2, l2) == SaveDeps(p2, l2) # SaveDeps(prefs, prefsLoaded)

StorageAfter(p2, l2) ==
    IF SaveRuns(p2, l2) THEN SaveEffect(p2, l2, storage) ELSE storage

FirstWriteAfter(wrote, st2) ==
    IF firstWrite = <<>> /\ wrote THEN <<st2>> ELSE firstWrite

\* useEffect(() => { ...getItem...; setPrefsLoaded(true) }, []) on mount.
LoadEffect ==
    /\ pc = "mounted"
    /\ pc' = "loadRan"
    /\ queued' = LoadPrefs(storage, prefs)
    /\ UNCHANGED <<prefs, prefsLoaded, storage, storeVars, uiVars, envVars, histVars>>

\* The save effect on mount: it sees the first render's prefsLoaded.
SaveEffectOnMount ==
    /\ pc = "loadRan"
    /\ pc' = "saveRan"
    /\ storage' = SaveEffect(prefs, prefsLoaded, storage)
    /\ firstWrite' = FirstWriteAfter(PrefsGate(prefsLoaded), storage')
    /\ UNCHANGED <<prefs, prefsLoaded, queued, storeVars, uiVars, envVars,
                   bootBlob, ops, budget, reloads>>

\* The data generating effect, then the render of the queued updates and the
\* effects of that render.
GenerateAndRender(people) ==
    /\ pc = "saveRan"
    /\ pc' = "ready"
    /\ \E customers \in GeneratedCustomers(people, nextId) :
          /\ data' = customers
          /\ nextId' = nextId + Len(customers)
          /\ charts' = ChartsMemo(ChartsProp(customers,
                           FilteredData(customers, searchQuery,
                                        queued.activeRoleFilter, queued.dateRange)), now)
          /\ columns' = ColumnsAfter(customers, searchQuery, queued, selectedIds)
    /\ prefs' = queued
    /\ prefsLoaded' = TRUE
    /\ storage' = StorageAfter(queued, TRUE)
    /\ firstWrite' = FirstWriteAfter(SaveRuns(queued, TRUE) /\ PrefsGate(TRUE), storage')
    /\ UNCHANGED <<queued, searchQuery, selectedIds, uiVars, envVars, bootBlob, ops, budget,
                   reloads>>

\* The user reloads the page: all component state is lost, storage stays.
Reload ==
    /\ pc = "ready"
    /\ reloads < MaxReloads
    /\ pc' = "mounted"
    /\ prefs' = DefaultPrefs
    /\ prefsLoaded' = FALSE
    /\ queued' = DefaultPrefs
    /\ data' = <<>>
    /\ searchQuery' = <<>>
    /\ selectedIds' = {}
    /\ charts' = ChartsMemo(<<>>, now)
    /\ columns' = <<>>
    /\ isModalOpen' = FALSE
    /\ editingCustomer' = <<>>
    /\ pendingSubmit' = <<>>
    /\ errors' = {}
    /\ inflight' = <<>>
    /\ toast' = NoToast
    /\ bootBlob' = storage
    /\ firstWrite' = <<>>
    /\ reloads' = reloads + 1
    /\ UNCHANGED <<storage, nextId, envVars, ops, budget>>

----------------------------------------------------------------------------
(* Handlers that set preference and filter state *)

\* A handler that leaves the state (p2, q2): the render that follows it and
\* the effects of that render.
SetState(p2, q2, t2) ==
    /\ pc = "ready"
    /\ ops < budget
    /\ ops' = ops + 1
    /\ prefs' = p2
    /\ searchQuery' = q2
    /\ storage' = StorageAfter(p2, prefsLoaded)
    /\ firstWrite' = FirstWriteAfter(SaveRuns(p2, prefsLoaded) /\ PrefsGate(prefsLoaded),
                                     storage')
    /\ charts' = ChartsAfter(FALSE, data, q2, p2)
    /\ columns' = ColumnsAfter(data, q2, p2, selectedIds)
    /\ toast' = t2
    /\ UNCHANGED <<pc, prefsLoaded, queued, data, selectedIds, nextId, isModalOpen,
                   editingCustomer, pendingSubmit, errors, inflight, envVars, bootBlob, budget,
                   reloads>>

RowsOptions == {10, 20, 50}

\* Columns of the column menu (two of the source's five).
ColumnIds == {"name", "email"}

\* Keys of CHART_THEMES (two of the source's five).
ThemeKeys == {"indigo", "rose"}

\* Values the colour input can deliver.
ColorInputs == {"#4f46e5", "#ff0000"}

\* Values the two date inputs can deliver: empty, or a day.
DateInputs == {<<>>, <<Day0>>}

WidgetIds == Range(DEFAULT_WIDGET_ORDER)

\* CustomerCharts is mounted and renders at least one widget.
ChartsShown == Len(data) > 0 /\ \E w \in WidgetIds : prefs.visibleCharts[w]

\* renderWidget(w) is not null.
WidgetRendered(w) == ChartsShown /\ w \in WidgetIds /\ prefs.visibleCharts[w]

\* The header shows the View menu, Import and Add only without a selection.
HeaderActionsShown == Cardinality(selectedIds) = 0

\* onChange of the search box.
SetSearchQuery(q) == SetState(prefs, q, toast)

\* <select onChange={e => setRowsPerPage(Number(e.target.value))}>
SetRowsPerPage(n) ==
    SetState([prefs EXCEPT !.rowsPerPage = n], searchQuery, toast)

\* A click on a tag of the filter menu.
SelectTagFilter(tag) ==
    SetState([prefs EXCEPT !.activeRoleFilter = tag], searchQuery, toast)

\* handleChartFilter: a stat card (Lead, Partner) or a bar or pie sector.
handleChartFilter(tag) ==
    /\ \/ WidgetRendered("stats") /\ tag \in {S_Lead, S_Partner}
       \/ /\ WidgetRendered("bar") \/ WidgetRendered("pie")
          /\ tag # <<>>
          /\ \E i \in DOMAIN charts.tagData : charts.tagData[i].name = tag
    /\ SetState([prefs EXCEPT !.activeRoleFilter = tag], searchQuery,
                Toast("info", "Filtered by", 0))

toggleColumnVisibility(columnId) ==
    LET prev == prefs.hiddenColumns
        newSet == IF columnId \in Range(prev)
                  THEN SelectSeq(prev, LAMBDA c : c # columnId)
                  ELSE Append(prev, columnId)
    IN SetState([prefs EXCEPT !.hiddenColumns = newSet], searchQuery, toast)

SetDateStart(v) ==
    SetState([prefs EXCEPT !.dateRange = [@ EXCEPT !.start = v]], searchQuery, toast)

SetDateEnd(v) ==
    SetState([prefs EXCEPT !.dateRange = [@ EXCEPT !.end = v]], searchQuery, toast)

\* The Clear button of the date menu.
ClearDateRange ==
    SetState([prefs EXCEPT !.dateRange = [start |-> <<>>, end |-> <<>>]], searchQuery, toast)

hasActiveFilters ==
    \/ searchQuery # <<>>
    \/ prefs.activeRoleFilter # S_All
    \/ prefs.dateRange.start # <<>>
    \/ prefs.dateRange.end # <<>>

clearFilters ==
    /\ hasActiveFilters
    /\ SetState([prefs EXCEPT !.activeRoleFilter = S_All,
                              !.dateRange = [start |-> <<>>, end |-> <<>>]], <<>>,
                Toast("info", "Filters cleared", 0))

toggleChartVisibility(chartId) ==
    /\ HeaderActionsShown
    /\ SetState([prefs EXCEPT !.visibleCharts = [@ EXCEPT ![chartId] = ~@]],
                searchQuery, toast)

\* A theme button; the custom colour trigger sets 'custom'.
SetChartTheme(theme) ==
    /\ HeaderActionsShown
    /\ SetState([prefs EXCEPT !.chartTheme = theme], searchQuery, toast)

\* onChange of the colour input.
SetCustomColor(color) ==
    /\ HeaderActionsShown
    /\ SetState([prefs EXCEPT !.customColor = color, !.chartTheme = "custom"], searchQuery, toast)

\* A toggle that only ever shrinks.
ToggleSizeToHalf(prev, id) == [prev EXCEPT ![id] = "half"]

\* prev => ({...prev, [id]: prev[id] === 'full' ? 'half' : 'full'})
ToggleSize(prev, id) == [prev EXCEPT ![id] = IF @ = "full" THEN "half" ELSE "full"]

handleToggleWidgetSize(id) ==
    /\ WidgetRendered(id)
    /\ SetState([prefs EXCEPT !.widgetSizes = ToggleSize(@, id)], searchQuery, toast)

\* array.splice(start, 1) and array.splice(start, 0, x), start 0-based.
SpliceOut(arr, start) ==
    SubSeq(arr, 1, start) \o SubSeq(arr, start + 2, Len(arr))

SpliceIn(arr, start, x) ==
    LET at == IF start > Len(arr) THEN Len(arr) ELSE start
    IN SubSeq(arr, 1, at) \o <<x>> \o SubSeq(arr, at + 1, Len(arr))

\* A move that exchanges the two positions.
ReorderSwap(prevOrder, dragIndex, hoverIndex) ==
    [prevOrder EXCEPT ![dragIndex + 1] = prevOrder[hoverIndex + 1],
                      ![hoverIndex + 1] = prevOrder[dragIndex + 1]]

\* update(prevOrder, {$splice: [[dragIndex, 1], [hoverIndex, 0, prevOrder[dragIndex]]]})
Reorder(prevOrder, dragIndex, hoverIndex) ==
    SpliceIn(SpliceOut(prevOrder, dragIndex), hoverIndex, prevOrder[dragIndex + 1])

\* A hover of the dragged widget over another rendered widget.
handleReorderWidgets(dragIndex, hoverIndex) ==
    /\ dragIndex # hoverIndex
    /\ dragIndex + 1 \in DOMAIN prefs.widgetOrder
    /\ hoverIndex + 1 \in DOMAIN prefs.widgetOrder
    /\ WidgetRendered(prefs.widgetOrder[dragIndex + 1])
    /\ WidgetRendered(prefs.widgetOrder[hoverIndex + 1])
    /\ SetState([prefs EXCEPT !.widgetOrder = Reorder(@, dragIndex, hoverIndex)],
                searchQuery, toast)

----------------------------------------------------------------------------
(* Record store, selection, modal and import handlers *)

S_New == <<"N", "e", "w">>

Ids(d) == [i \in DOMAIN d |-> d[i].id]

IdSet(d) == {d[i].id : i \in DOMAIN d}

\* A click or key press of the user: it is counted against the budget.
UserOp ==
    /\ pc = "ready"
    /\ ops < budget
    /\ ops' = ops + 1

\* A timer or library callback.
Callback ==
    /\ pc = "ready"
    /\ ops' = ops

\* The re-render after a handler that leaves the preferences alone: the save
\* effect's dependencies are unchanged, the charts see the data prop, the
\* columns memo sees the store and the selection the handler left.
Rerender(d2, dataSet) ==
    /\ charts' = ChartsAfter(dataSet, d2, searchQuery, prefs)
    /\ columns' = ColumnsAfter(d2, searchQuery, prefs, selectedIds')
    /\ UNCHANGED <<pc, prefVars, searchQuery, envVars, bootBlob, firstWrite, budget, reloads>>

\* The "Add Customer" button.
OpenAddModal ==
    /\ UserOp
    /\ HeaderActionsShown
    /\ editingCustomer' = <<>>
    /\ isModalOpen' = TRUE
    /\ errors' = {}
    /\ UNCHANGED <<data, selectedIds, nextId, pendingSubmit, inflight, toast>>
    /\ Rerender(data, FALSE)

\* data.find(c => c.id === id)
Find(d, id) ==
    IF id \in IdSet(d)
    THEN <<d[CHOOSE i \in DOMAIN d : d[i].id = id /\ \A j \in 1..(i - 1) : d[j].id # id]>>
    ELSE <<>>

\* actionsRef.current.edit, from the row menu of a displayed row.
edit(id) ==
    /\ UserOp
    /\ id \in IdSet(filteredData)
    /\ Find(data, id) # <<>>
    /\ editingCustomer' = Find(data, id)
    /\ isModalOpen' = TRUE
    /\ UNCHANGED <<data, selectedIds, nextId, pendingSubmit, errors, inflight, toast>>
    /\ Rerender(data, FALSE)

FormData(firstName, lastName, email, phone, role) ==
    [firstName |-> firstName, lastName |-> lastName, email |-> email,
     phone |-> phone, role |-> role]

Letters == UpperChars \o LowerChars

AllIn(s, chars) == \A i \in DOMAIN s : ArrayIncludes(chars, s[i])

\* /^[A-Z0-9._%+-]+@[A-Z0-9.-]+\.[A-Z]{2,}$/i
EmailPattern(e) ==
    \E at \in DOMAIN e : \E dot \in DOMAIN e :
        /\ e[at] = "@"
        /\ e[dot] = "."
        /\ 1 < at
        /\ at + 1 < dot
        /\ dot + 2 <= Len(e)
        /\ AllIn(SubSeq(e, 1, at - 1), Letters \o Digits \o <<".", "_", "%", "+", "-">>)
        /\ AllIn(SubSeq(e, at + 1, dot - 1), Letters \o Digits \o <<".", "-">>)
        /\ AllIn(SubSeq(e, dot + 1, Len(e)), Letters)

\* formState.errors after handleSubmit has validated the form: the fields
\* whose register() rule fails.
FieldErrors(fd) ==
    (IF fd.firstName = <<>> THEN {"firstName"} ELSE {})
        \cup (IF fd.lastName = <<>> THEN {"lastName"} ELSE {})
        \cup (IF fd.email = <<>> \/ ~EmailPattern(fd.email) THEN {"email"} ELSE {})
        \cup (IF fd.phone = "" THEN {"phone"} ELSE {})

\* Rules that ask for a value in every field and do not look at it.
FormValidRequiredOnly(fd) ==
    /\ fd.firstName # <<>>
    /\ fd.lastName # <<>>
    /\ fd.email # <<>>
    /\ fd.phone # ""

\* The register() rules of the form.
FormValid(fd) ==
    /\ fd.firstName # <<>>
    /\ fd.lastName # <<>>
    /\ fd.email # <<>>
    /\ EmailPattern(fd.email)
    /\ fd.phone # ""

\* handleSubmit(handleFormSubmit): a valid form starts the 600 ms delay with
\* the onSubmit of this render, which holds this render's editingCustomer;
\* a form the rules reject shows its errors and goes no further.
\* The submit button is disabled while a submission is in its delay.
handleFormSubmit(fd) ==
    /\ UserOp
    /\ isModalOpen
    /\ pendingSubmit = <<>>
    /\ pendingSubmit' = IF FormValid(fd)
                        THEN <<[form |-> fd, editing |-> editingCustomer]>>
                        ELSE <<>>
    /\ errors' = FieldErrors(fd)
    /\ UNCHANGED <<data, selectedIds, nextId, isModalOpen, editingCustomer, inflight, toast>>
    /\ Rerender(data, FALSE)

\* An update that builds the record anew, as a create does.
UpdatedCustomerRebuilt(c, fd) ==
    [c EXCEPT !.name = FullName(fd.firstName, fd.lastName),
              !.email = fd.email,
              !.phone = fd.phone,
              !.tags = <<fd.role>>,
              !.lastContacted = ToLocaleDateString(now)]

\* { ...c, name, email, phone, tags: [formData.role] }
UpdatedCustomer(c, fd) ==
    [c EXCEPT !.name = FullName(fd.firstName, fd.lastName),
              !.email = fd.email,
              !.phone = fd.phone,
              !.tags = <<fd.role>>]

\* An update that puts the edited customer back when it is gone.
UpdatedStoreUpsert(prev, editing, fd) ==
    IF editing.id \in IdSet(prev)
    THEN [i \in DOMAIN prev |->
            IF prev[i].id = editing.id THEN UpdatedCustomer(prev[i], fd) ELSE prev[i]]
    ELSE <<UpdatedCustomer(editing, fd)>> \o prev

\* prev.map(c => c.id === editingCustomer.id ? {...c, ...} : c)
UpdatedStore(prev, editing, fd) ==
    [i \in DOMAIN prev |->
        IF prev[i].id = editing.id THEN UpdatedCustomer(prev[i], fd) ELSE prev[i]]

\* The id handleModalSubmit gives a new customer: faker.string.uuid().
NewCustomerId(fresh) == fresh

NewCustomer(fd, fresh, t) ==
    Customer(NewCustomerId(fresh), FullName(fd.firstName, fd.lastName), "avatar", fd.email,
             fd.phone, <<fd.role>>, ToLocaleDateString(t))

\* The delay is over: onSubmit(data), then onClose().
handleModalSubmit ==
    /\ Callback
    /\ pendingSubmit # <<>>
    /\ LET fd == pendingSubmit[1].form
           editing == pendingSubmit[1].editing
       IN IF editing # <<>>
          THEN /\ data' = UpdatedStore(data, editing[1], fd)
               /\ toast' = Toast("success", "Customer updated successfully", 0)
               /\ nextId' = nextId
          ELSE /\ data' = <<NewCustomer(fd, nextId, now)>> \o data
               /\ toast' = Toast("success", "Customer added successfully", 0)
               /\ nextId' = nextId + 1
    /\ pendingSubmit' = <<>>
    /\ editingCustomer' = <<>>
    /\ isModalOpen' = FALSE
    /\ UNCHANGED <<selectedIds, errors, inflight>>
    /\ Rerender(data', TRUE)

\* Cancel, the close button, the overlay and Escape.
handleCloseModal ==
    /\ UserOp
    /\ isModalOpen
    /\ isModalOpen' = FALSE
    /\ editingCustomer' = <<>>
    /\ UNCHANGED <<data, selectedIds, nextId, pendingSubmit, errors, inflight, toast>>
    /\ Rerender(data, FALSE)

\* prev.filter(c => keep(c))
Without(d, ids) == SelectSeq(d, LAMBDA c : c.id \notin ids)

\* A delete that leaves the selection as it is.
DeselectedNot(prev, id) == prev

\* setSelectedIds(prev => { const newSet = new Set(prev); newSet.delete(id); ... })
Deselected(prev, id) == prev \ {id}

\* actionsRef.current.delete, confirmed, from the row menu of a displayed row.
delete(id) ==
    /\ UserOp
    /\ id \in IdSet(filteredData)
    /\ data' = Without(data, {id})
    /\ selectedIds' = Deselected(selectedIds, id)
    /\ toast' = Toast("success", "Customer deleted", 0)
    /\ UNCHANGED <<nextId, isModalOpen, editingCustomer, pendingSubmit, errors, inflight>>
    /\ Rerender(data', TRUE)

\* actionsRef.current.toggleSelect, from the checkbox of a displayed row.
toggleSelect(id) ==
    /\ UserOp
    /\ id \in IdSet(filteredData)
    /\ selectedIds' = IF id \in selectedIds THEN selectedIds \ {id} ELSE selectedIds \cup {id}
    /\ UNCHANGED <<data, nextId, uiVars>>
    /\ Rerender(data, FALSE)

\* The "Cancel" button of the selection bar.
ClearSelection ==
    /\ UserOp
    /\ ~HeaderActionsShown
    /\ selectedIds' = {}
    /\ UNCHANGED <<data, nextId, uiVars>>
    /\ Rerender(data, FALSE)

\* handleToggleAll over the selection of the current render and the view
\* the handler closes over.
ToggleAll(sel, view) ==
    IF Cardinality(sel) = Len(view) /\ Len(view) > 0 THEN {} ELSE Range(view)

\* The header checkbox: onChange is the handleToggleAll of the render that
\* made the columns memo.
handleToggleAll ==
    /\ UserOp
    /\ selectedIds' = ToggleAll(selectedIds, columns)
    /\ UNCHANGED <<data, nextId, uiVars>>
    /\ Rerender(data, FALSE)

\* A bulk delete that only reaches the displayed rows.
BulkTargetsDisplayed(selected, displayed) == selected \cap IdSet(displayed)

\* The ids handleBulkDelete removes: c => !selectedIds.has(c.id)
BulkTargets(selected, displayed) == selected

\* The "Delete" button of the selection bar, confirmed.
handleBulkDelete ==
    /\ UserOp
    /\ ~HeaderActionsShown
    /\ data' = Without(data, BulkTargets(selectedIds, filteredData))
    /\ selectedIds' = {}
    /\ toast' = Toast("success", "Customers deleted", 0)
    /\ UNCHANGED <<nextId, isModalOpen, editingCustomer, pendingSubmit, errors, inflight>>
    /\ Rerender(data', TRUE)

\* One parsed line of an imported file: the cells the import reads, <<>> or
\* "" for a missing or empty cell; id is the file's id column (0: none).
Row(id, name, Name, fullName, email, Email, phone, Phone, tags, avatar) ==
    [id |-> id, name |-> name, Name |-> Name, fullName |-> fullName, email |-> email,
     Email |-> Email, phone |-> phone, Phone |-> Phone, tags |-> tags, avatar |-> avatar]

\* A fallback that is never taken.
OrElseBlank(a, b) == a

\* a || b on the text cells
OrElse(a, b) == IF a # <<>> THEN a ELSE b

\* a || b on the phone and avatar cells
OrElseStr(a, b) == IF a # "" THEN a ELSE b

\* s.split(sep)
RECURSIVE Split(_, _)
Split(s, sep) ==
    IF \E i \in DOMAIN s : s[i] = sep
    THEN LET i == CHOOSE k \in DOMAIN s : s[k] = sep /\ \A j \in 1..(k - 1) : s[j] # sep
         IN <<SubSeq(s, 1, i - 1)>> \o Split(SubSeq(s, i + 1, Len(s)), sep)
    ELSE <<s>>

\* s.trim()
RECURSIVE Trim(_)
Trim(s) ==
    IF s = <<>> THEN s
    ELSE IF Head(s) = " " THEN Trim(Tail(s))
    ELSE IF s[Len(s)] = " " THEN Trim(SubSeq(s, 1, Len(s) - 1))
    ELSE s

\* What faker supplies for a cell the file leaves out.
FakerName == FullName(<<"F", "a">>, <<"K", "e">>)

FakerEmail == <<"f", "@", "k", ".", "i", "o">>

FakerTags == {S_Lead, S_New}

\* The id the import gives a row: faker.string.uuid(), whatever the file says.
ImportIdFromRow(row, fresh) == IF row.id # 0 THEN row.id ELSE fresh

ImportId(row, fresh) == fresh

\* results.data.map(row => ({...})) for one row
ImportedCustomer(row, fresh, fakerTag, t) ==
    Customer(ImportId(row, fresh),
             OrElse(row.name, OrElse(row.Name, OrElse(row.fullName, FakerName))),
             OrElseStr(row.avatar, "avatar"),
             OrElse(row.email, OrElse(row.Email, FakerEmail)),
             OrElseStr(row.phone, OrElseStr(row.Phone, "phone")),
             IF row.tags # <<>>
             THEN LET parts == Split(row.tags, ",") IN [i \in DOMAIN parts |-> Trim(parts[i])]
             ELSE <<fakerTag>>,
             ToLocaleDateString(t))

\* The most files Papa.parse works on at once.
MaxInflight == 2

\* handleImportClick and handleFileChange: the chosen file goes to Papa.parse.
handleFileChange(rows) ==
    /\ UserOp
    /\ HeaderActionsShown
    /\ Len(inflight) < MaxInflight
    /\ inflight' = Append(inflight, rows)
    /\ toast' = Toast("loading", "Importing customers...", 0)
    /\ UNCHANGED <<data, selectedIds, nextId, isModalOpen, editingCustomer, pendingSubmit, errors>>
    /\ Rerender(data, FALSE)

RemoveAt(s, k) == SubSeq(s, 1, k - 1) \o SubSeq(s, k + 1, Len(s))

\* A tags cell that is truthy and not a string: row.tags.split throws.
NonStringCell == <<"[object Object]">>

Throws(rows) == \E i \in DOMAIN rows : rows[i].tags = NonStringCell

\* The number of rows the map has started on when it throws.
RowsStarted(rows) ==
    CHOOSE i \in DOMAIN rows :
        rows[i].tags = NonStringCell /\ \A j \in 1..(i - 1) : rows[j].tags # NonStringCell

\* An import that puts the new records behind the prior ones.
ImportedStoreAppended(prev, rows, built) ==
    IF Throws(rows) \/ Len(built) = 0 THEN prev ELSE prev \o built

\* An import that adds each row as soon as it is built.
ImportedStoreRowByRow(prev, rows, built) ==
    IF Throws(rows) THEN SubSeq(built, 1, RowsStarted(rows) - 1) \o prev
    ELSE built \o prev

\* The store after the complete callback: the map runs to its end before
\* setData(prev => [...newCustomers, ...prev]), which is skipped when the map
\* throws or yields nothing.
ImportedStore(prev, rows, built) ==
    IF Throws(rows) \/ Len(built) = 0 THEN prev ELSE built \o prev

\* Papa.parse's complete callback for the k-th file in flight.
ImportComplete(k) ==
    /\ Callback
    /\ k \in DOMAIN inflight
    /\ inflight' = RemoveAt(inflight, k)
    /\ UNCHANGED <<selectedIds, isModalOpen, editingCustomer, pendingSubmit, errors>>
    /\ \E fakerTag \in [DOMAIN inflight[k] -> FakerTags] :
          LET rows == inflight[k]
              newCustomers == [i \in DOMAIN rows |->
                                  ImportedCustomer(rows[i], nextId + i - 1, fakerTag[i], now)]
          IN /\ nextId' = nextId + (IF Throws(rows) THEN RowsStarted(rows) ELSE Len(rows))
             /\ data' = ImportedStore(data, rows, newCustomers)
             /\ toast' = IF Throws(rows)
                         THEN Toast("error", "Failed to process file data", 0)
                         ELSE IF Len(newCustomers) > 0
                         THEN Toast("success", "Successfully imported", Len(newCustomers))
                         ELSE Toast("error", "No valid customer data found in file", 0)
             /\ Rerender(data', ~Throws(rows) /\ Len(newCustomers) > 0)

\* Papa.parse's error callback for the k-th file in flight.
ImportError(k) ==
    /\ Callback
    /\ k \in DOMAIN inflight
    /\ inflight' = RemoveAt(inflight, k)
    /\ toast' = Toast("error", "Failed to parse CSV file", 0)
    /\ UNCHANGED <<data, selectedIds, nextId, isModalOpen, editingCustomer, pendingSubmit, errors>>
    /\ Rerender(data, FALSE)

\* parts.join(sep)
RECURSIVE Join(_, _)
Join(parts, sep) ==
    IF parts = <<>> THEN <<>>
    ELSE IF Len(parts) = 1 THEN parts[1]
    ELSE parts[1] \o <<sep>> \o Join(Tail(parts), sep)

\* The initialData prop of the form for the customer being edited.
InitialData(c) ==
    FormData(Split(c.name, " ")[1],
             Join(Tail(Split(c.name, " ")), " "),
             c.email,
             c.phone,
             IF c.tags # <<>> THEN c.tags[1] ELSE S_Lead)

\* The edit form, filled by the initialisation effect from initialData, is
\* submitted as it is.
SubmitUnchanged ==
    /\ editingCustomer # <<>>
    /\ handleFormSubmit(InitialData(editingCustomer[1]))

\* Time passes.
TickMinutes == 14 * 60

Tick ==
    /\ pc = "ready"
    /\ ops < budget
    /\ ops' = ops + 1
    /\ now' = now + TickMinutes
    /\ UNCHANGED <<pc, prefVars, storeVars, uiVars, tz, monthLabel, bootBlob, firstWrite,
                   budget, reloads>>

----------------
(* Preference store: specification *)

\* A preference set that differs from the defaults in every field.
OtherPrefs ==
    [rowsPerPage |-> 50,
     activeRoleFilter |-> S_Partner,
     hiddenColumns |-> <<"avatar", "email">>,
     dateRange |-> [start |-> <<Day0>>, end |-> <<>>],
     visibleCharts |-> [stats |-> TRUE, bar |-> TRUE, pie |-> FALSE, line |-> TRUE],
     chartTheme |-> "rose",
     customColor |-> "#ff0000",
     widgetOrder |-> <<"line", "stats", "bar", "pie">>,
     widgetSizes |-> [stats |-> "half", line |-> "full", bar |-> "half", pie |-> "half"]]

\* What the storage key may hold when the page is first opened: nothing, an
\* unparseable string, a blob saved earlier, a blob that parses but has a
\* non-iterable hiddenColumns, and a blob that parses but lacks rowsPerPage
\* and widgetSizes, has a widgetOrder that is no array and a hiddenColumns
\* array with a repeated member.
StoredBlobs ==
    {NoBlob,
     GarbageBlob,
     Serialize(OtherPrefs),
     [Serialize(OtherPrefs) EXCEPT !.f.hiddenColumns = Field("bad", <<>>)],
     [Serialize(OtherPrefs) EXCEPT !.f.rowsPerPage = Field("absent", 0),
                                   !.f.widgetSizes = Field("absent", DEFAULT_WIDGET_SIZES),
                                   !.f.widgetOrder = Field("bad", <<>>),
                                   !.f.hiddenColumns = Field("ok", <<"email", "email">>)]}

InitPrefs ==
    \E st \in StoredBlobs :
        Mounted(st, 0, "quoted", Day0 * MinutesPerDay + 600, MaxPrefOps, 0, 0)

PrefHandlers ==
    \/ \E n \in RowsOptions : SetRowsPerPage(n)
    \/ \E tag \in Range(AVAILABLE_TAGS) : SelectTagFilter(tag)
    \/ \E tag \in {S_Lead, S_Partner} : handleChartFilter(tag)
    \/ \E c \in ColumnIds : toggleColumnVisibility(c)
    \/ \E v \in DateInputs : SetDateStart(v)
    \/ \E v \in DateInputs : SetDateEnd(v)
    \/ ClearDateRange
    \/ clearFilters
    \/ \E c \in WidgetIds : toggleChartVisibility(c)
    \/ \E t \in ThemeKeys \cup {"custom"} : SetChartTheme(t)
    \/ \E c \in ColorInputs : SetCustomColor(c)
    \/ \E w \in WidgetIds : handleToggleWidgetSize(w)
    \/ \E i, j \in 0..(Len(DEFAULT_WIDGET_ORDER) - 1) : handleReorderWidgets(i, j)

NextPrefs ==
    \/ LoadEffect
    \/ SaveEffectOnMount
    \/ GenerateAndRender(PeopleOne)
    \/ Reload
    \/ PrefHandlers

SpecPrefs == InitPrefs /\ [][NextPrefs]_vars

----------------------------------------------------------------------------
(* Preference store: properties *)

\* A blob as a save writes it: it parses, every property is present with a
\* value of its type, and hiddenColumns has no repeated member.
ValidStored(b) ==
    /\ b.kind = "json"
    /\ \A name \in DOMAIN b.f : b.f[name].k = "ok"
    /\ NewSet(b.f.hiddenColumns.v) = b.f.hiddenColumns.v

\* C1: since the page was opened nothing is written to the storage key
\* before the load has completed, and when the stored blob was a valid one
\* the first write writes that blob back: a saved blob is never replaced by
\* the defaults.
C1_NoWriteBeforeLoad ==
    /\ firstWrite # <<>> => prefsLoaded
    /\ (firstWrite # <<>> /\ ValidStored(bootBlob)) => firstWrite[1] = bootBlob

\* C1 witness: the first write has happened over a stored blob that is
\* valid and differs from the defaults in every field.
C1_Witness ==
    /\ reloads = 0
    /\ firstWrite # <<>>
    /\ bootBlob = Serialize(OtherPrefs)

\* The load the claim C2 describes: every field on its own, a well-formed
\* property applied, any other property defaulted.
FieldwiseLoad(blob) ==
    IF blob.kind # "json" THEN DefaultPrefs
    ELSE [name \in DOMAIN DefaultPrefs |->
            IF blob.f[name].k = "ok"
            THEN (IF name = "hiddenColumns" THEN NewSet(blob.f[name].v) ELSE blob.f[name].v)
            ELSE DefaultPrefs[name]]

\* C2 (as claimed): the load defaults each field independently; a malformed
\* field leaves every other well-formed field of the blob applied.
C2_FieldByFieldDefaults ==
    pc \in {"loadRan", "saveRan"} => queued = FieldwiseLoad(bootBlob)

\* C3: a preference state the UI can reach survives save and load: loading
\* the blob saved from it gives the same nine values, saving those again
\* gives the same blob, and after a reload the first write is the blob that
\* was stored.
C3_RoundTrip ==
    pc = "ready" =>
        /\ LoadPrefs(Serialize(prefs), DefaultPrefs) = prefs
        /\ Serialize(LoadPrefs(Serialize(prefs), DefaultPrefs)) = Serialize(prefs)
        /\ (reloads > 0 /\ firstWrite # <<>>) => firstWrite[1] = bootBlob

\* C3 witness: a reloaded page shows hidden columns and a widget order that
\* differ from the defaults.
C3_Witness ==
    /\ pc = "ready"
    /\ reloads > 0
    /\ firstWrite # <<>>
    /\ prefs.hiddenColumns # DefaultPrefs.hiddenColumns
    /\ prefs.widgetOrder # DefaultPrefs.widgetOrder

\* C4: once the load has completed, after every handler the stored blob is
\* the serialization of the whole current preference set.
C4_StoredIsFullSet ==
    pc = "ready" => storage = Serialize(prefs)

\* C4 witness: two handlers have changed two different fields, one of them
\* the widget sizes.
C4_Witness ==
    /\ pc = "ready"
    /\ ops = 2
    /\ reloads = 0
    /\ bootBlob = NoBlob
    /\ prefs.widgetSizes # DefaultPrefs.widgetSizes
    /\ prefs.rowsPerPage # DefaultPrefs.rowsPerPage

\* The sequence without its element at 0-based index k.
Dropped(s, k) == [n \in 1..(Len(s) - 1) |-> IF n <= k THEN s[n] ELSE s[n + 1]]

\* new is old with the element at fromIndex moved to toIndex.
Moved(old, new, fromIndex, toIndex) ==
    /\ Len(new) = Len(old)
    /\ new[toIndex + 1] = old[fromIndex + 1]
    /\ Dropped(new, toIndex) = Dropped(old, fromIndex)

\* C14: every step that changes the widget order moves one element from an
\* in-range index to an in-range index: the element is at the target
\* index, the others keep their relative order and the length is the same;
\* moving index 0 to index 2 in [stats, line, bar, pie] gives
\* [line, bar, stats, pie].
C14_ReorderMovesOne ==
    /\ [](Reorder(<<"stats", "line", "bar", "pie">>, 0, 2) = <<"line", "bar", "stats", "pie">>)
    /\ [][(pc = "ready" /\ pc' = "ready" /\ prefs'.widgetOrder # prefs.widgetOrder) =>
            \E i, j \in 0..(Len(prefs.widgetOrder) - 1) :
                Moved(prefs.widgetOrder, prefs'.widgetOrder, i, j)]_vars

\* The first widget has been dragged to the third place.
C14_Witness ==
    /\ pc = "ready"
    /\ bootBlob = NoBlob
    /\ ops = 1
    /\ prefs.widgetOrder = <<"line", "bar", "stats", "pie">>

\* w2 is w1 with the size of exactly one widget flipped.
OneFlipped(w1, w2) ==
    \E id \in WidgetIds :
        /\ {w1[id], w2[id]} = {"full", "half"}
        /\ \A other \in WidgetIds \ {id} : w2[other] = w1[other]

\* C15: every step that changes the size map flips the size of exactly one
\* widget between full and half and leaves the other sizes and the widget
\* order alone, and toggling any widget twice gives the size map back.
C15_ToggleSizeFlipsOne ==
    /\ [](\A id \in WidgetIds :
            ToggleSize(ToggleSize(prefs.widgetSizes, id), id) = prefs.widgetSizes)
    /\ [][(pc = "ready" /\ pc' = "ready" /\ prefs'.widgetSizes # prefs.widgetSizes) =>
            /\ OneFlipped(prefs.widgetSizes, prefs'.widgetSizes)
            /\ prefs'.widgetOrder = prefs.widgetOrder]_vars

\* Two different widgets have been toggled.
C15_Witness ==
    /\ pc = "ready"
    /\ bootBlob = NoBlob
    /\ Cardinality({id \in WidgetIds : prefs.widgetSizes[id] # DEFAULT_WIDGET_SIZES[id]}) = 2

----------------------------------------------------------------------------
(* Record store: specification *)

\* What the user can type into the form: a valid form, one whose e-mail the
\* pattern rejects, and one for each field left empty.
FormInputs ==
    {FormData(<<"C", "y">>, <<"D", "e">>, <<"c", "@", "d", ".", "i", "o">>, "555", S_VIP),
     FormData(<<"C", "y">>, <<"D", "e">>, <<"c", "@", "d">>, "555", S_VIP),
     FormData(<<>>, <<"D", "e">>, <<"c", "@", "d", ".", "i", "o">>, "555", S_VIP),
     FormData(<<"C", "y">>, <<>>, <<"c", "@", "d", ".", "i", "o">>, "555", S_VIP),
     FormData(<<"C", "y">>, <<"D", "e">>, <<>>, "555", S_VIP),
     FormData(<<"C", "y">>, <<"D", "e">>, <<"c", "@", "d", ".", "i", "o">>, "", S_VIP)}

\* Files the user can import: an empty one, an exported file that carries
\* an id column, one with a row of empty cells before a row that uses the
\* alternative headers, and one whose second row makes the map throw.
ImportFiles ==
    {<<>>,
     <<Row(1, <<"G", "o">>, <<>>, <<>>, <<"g", "@", "o">>, <<>>, "777", "", <<"V", "I", "P", ",", " ", "N", "e", "w">>, "pic")>>,
     <<Row(0, <<>>, <<>>, <<>>, <<>>, <<>>, "", "", <<>>, ""),
       Row(0, <<>>, <<"H", "i">>, <<>>, <<>>, <<"h", "@", "i">>, "", "888", <<>>, "")>>,
     <<Row(0, <<"J", "o">>, <<>>, <<>>, <<>>, <<>>, "", "", <<>>, ""),
       Row(0, <<"K", "o">>, <<>>, <<>>, <<>>, <<>>, "", "", NonStringCell, "")>>}

InitStore == Mounted(NoBlob, 0, "quoted", Day0 * MinutesPerDay + 600, MaxStoreOps, 0, 0)

StoreHandlers ==
    \/ OpenAddModal
    \/ \E id \in IdSet(data) : edit(id)
    \/ \E fd \in FormInputs : handleFormSubmit(fd)
    \/ handleModalSubmit
    \/ handleCloseModal
    \/ \E id \in IdSet(data) : delete(id)
    \/ \E id \in IdSet(data) : toggleSelect(id)
    \/ ClearSelection
    \/ handleBulkDelete
    \/ \E rows \in ImportFiles : handleFileChange(rows)
    \/ \E k \in DOMAIN inflight : ImportComplete(k)
    \/ \E k \in DOMAIN inflight : ImportError(k)

NextStore ==
    \/ LoadEffect
    \/ SaveEffectOnMount
    \/ GenerateAndRender(PeopleOne)
    \/ StoreHandlers

SpecStore == InitStore /\ [][NextStore]_vars

----------------------------------------------------------------------------
(* Record store: properties *)

IdsUnique == \A i, j \in DOMAIN data : data[i].id = data[j].id => i = j

\* The ids of the records that survive a step are the same ids in the same
\* order, and an id that appears was never used before.
IdsKept ==
    /\ SelectSeq(Ids(data'), LAMBDA x : x \in IdSet(data))
         = SelectSeq(Ids(data), LAMBDA x : x \in IdSet(data'))
    /\ \A x \in IdSet(data') \ IdSet(data) : x >= nextId

\* C5: no two records of the store share an id, and no operation (create,
\* update, delete, bulk delete, import) rewrites the id of a record that
\* stays in the store: every step keeps the surviving ids, in order, and
\* only adds ids never used before.
C5_UniqueImmutableIds == [](IdsUnique) /\ [][IdsKept]_vars

\* An import has added a record and an edit has then rewritten a generated
\* record, which still carries its id.
C5_Witness ==
    /\ toast.text = "Customer updated successfully"
    /\ Len(data) > InitialCustomers
    /\ \E i \in DOMAIN data : data[i].id <= InitialCustomers /\ data[i].tags = <<S_VIP>>

\* A step in which an import callback (complete or error) runs.
ImportEnds == pc = "ready" /\ pc' = "ready" /\ Len(inflight') < Len(inflight)

\* C17: the callback of an import either reports success and adds every row
\* of the file, or reports an error and leaves the store as it was; a file
\* without rows or with a row whose building throws always ends the second
\* way, as does the error callback.  No step adds part of a file.
C17_ImportAllOrNothing ==
    [][ImportEnds =>
          \E k \in DOMAIN inflight :
              /\ inflight' = RemoveAt(inflight, k)
              /\ LET rows == inflight[k]
                     fails == rows = <<>> \/ \E i \in DOMAIN rows : rows[i].tags = NonStringCell
                 IN \/ toast'.kind = "error" /\ data' = data
                    \/ /\ toast'.kind = "success"
                       /\ ~fails
                       /\ Len(data') = Len(data) + Len(rows)
                       /\ SubSeq(data', Len(rows) + 1, Len(data')) = data]_vars

\* The building of the second row of a file has thrown: the store holds the
\* generated customers only.
C17_Witness ==
    /\ toast.text = "Failed to process file data"
    /\ inflight = <<>>
    /\ Ids(data) = [i \in 1..InitialCustomers |-> i]

\* The first non-empty of the cells, or <<>>.
FirstGiven(cells) ==
    IF \E i \in DOMAIN cells : cells[i] # <<>>
    THEN cells[CHOOSE i \in DOMAIN cells :
                   cells[i] # <<>> /\ \A j \in 1..(i - 1) : cells[j] = <<>>]
    ELSE <<>>

\* Record c is what the import makes of row r.
BuiltFrom(c, r) ==
    /\ c.name # <<>>
    /\ c.email # <<>>
    /\ c.phone # ""
    /\ FirstGiven(<<r.name, r.Name, r.fullName>>) # <<>>
          => c.name = FirstGiven(<<r.name, r.Name, r.fullName>>)
    /\ FirstGiven(<<r.email, r.Email>>) # <<>> => c.email = FirstGiven(<<r.email, r.Email>>)
    /\ r.tags = <<>> => Len(c.tags) = 1 /\ c.tags[1] \in {S_Lead, S_New}

\* C18: a successful import of a file of n >= 1 rows puts n new records at
\* the front of the store, the i-th built from the i-th row, ahead of all
\* prior records, which are unchanged; the toast reports n; an empty or
\* missing name, email or phone is replaced by a non-empty value and an
\* empty or missing tags cell by exactly one of the default tags.
C18_ImportPrepends ==
    [][(ImportEnds /\ toast'.kind = "success") =>
          \E k \in DOMAIN inflight :
              /\ inflight' = RemoveAt(inflight, k)
              /\ LET rows == inflight[k]
                     n == Len(rows)
                 IN /\ n >= 1
                    /\ toast'.n = n
                    /\ Len(data') = Len(data) + n
                    /\ SubSeq(data', n + 1, Len(data')) = data
                    /\ \A i \in 1..n :
                          /\ data'[i].id \notin IdSet(data)
                          /\ BuiltFrom(data'[i], rows[i])]_vars

\* The file of two rows has been imported: the first record has a generated
\* name, the second the name of its Name cell.
C18_Witness ==
    /\ toast.kind = "success"
    /\ toast.n = 2
    /\ Len(data) = InitialCustomers + 2
    /\ data[1].name = FakerName
    /\ data[2].name = <<"H", "i">>

\* C19: at most one import is in flight at any time.
C19_SingleImportInFlight == Len(inflight) <= 1

\* A step in which the delayed submit fires.
SubmitFires ==
    pc = "ready" /\ pc' = "ready" /\ pendingSubmit # <<>> /\ pendingSubmit' = <<>>

\* C20: when the delayed submit fires it is applied to the store as it is
\* then: a create adds one new record in front of the current store; an
\* update leaves the current ids and their order as they are and changes no
\* record but the edited one, so a record deleted during the delay stays
\* deleted and records imported during the delay stay.
C20_SubmitOnCurrentStore ==
    [][SubmitFires =>
          IF pendingSubmit[1].editing = <<>>
          THEN /\ Len(data') = Len(data) + 1
               /\ Tail(data') = data
               /\ data'[1].id \notin IdSet(data)
          ELSE /\ Ids(data') = Ids(data)
               /\ \A i \in DOMAIN data :
                     data'[i] # data[i] => data[i].id = pendingSubmit[1].editing[1].id]_vars

\* An update has fired after its record was deleted during the delay: the
\* toast reports the update and no record carries the submitted form.
C20_Witness ==
    /\ toast.text = "Customer updated successfully"
    /\ Len(data) = InitialCustomers - 1
    /\ \A i \in DOMAIN data : data[i].tags # <<S_VIP>>

\* C24: an update changes only the name, email, phone and tags of the
\* record with the edited id: its id, avatar and lastContacted, its place in
\* the store and every other record stay; when no record has that id the
\* store stays as it was.
C24_UpdateFrame ==
    [][(SubmitFires /\ pendingSubmit[1].editing # <<>>) =>
          LET id == pendingSubmit[1].editing[1].id
              fd == pendingSubmit[1].form
          IN /\ Len(data') = Len(data)
             /\ \A i \in DOMAIN data :
                   IF data[i].id = id
                   THEN /\ data'[i].id = data[i].id
                        /\ data'[i].avatar = data[i].avatar
                        /\ data'[i].lastContacted = data[i].lastContacted
                        /\ data'[i].name = FullName(fd.firstName, fd.lastName)
                        /\ data'[i].email = fd.email
                        /\ data'[i].phone = fd.phone
                   ELSE data'[i] = data[i]
             /\ id \notin IdSet(data) => data' = data]_vars

\* An update has been applied to the second record of the store: it has the
\* submitted name and e-mail and the avatar it was generated with; the
\* first record is as generated.
C24_Witness ==
    /\ toast.text = "Customer updated successfully"
    /\ Len(data) = InitialCustomers
    /\ data[2].name = FullName(<<"C", "y">>, <<"D", "e">>)
    /\ data[2].email = <<"c", "@", "d", ".", "i", "o">>
    /\ data[2].avatar = "avatar"
    /\ data[1].name # data[2].name

\* The form has a first name, a last name, an e-mail that matches the
\* pattern and a phone.
Complete(fd) ==
    /\ Len(fd.firstName) > 0
    /\ Len(fd.lastName) > 0
    /\ Len(fd.email) > 0
    /\ EmailPattern(fd.email)
    /\ fd.phone # ""

\* C25: a form with a missing first name, last name, e-mail or phone, or
\* with an e-mail the pattern rejects, never reaches the store: submitting
\* it starts no submission and leaves the store as it is, and every
\* submission that is pending or fires carries a complete form.
C25_InvalidFormBlocked ==
    /\ [](pendingSubmit # <<>> => Complete(pendingSubmit[1].form))
    /\ [][\A fd \in FormInputs :
             (handleFormSubmit(fd) /\ ~Complete(fd)) =>
                 (data' = data /\ pendingSubmit' = <<>> /\ nextId' = nextId)]_vars

\* The form with the rejected e-mail has been submitted for an edit: the
\* error is shown, no submission is pending, the store is as generated.
C25_Witness ==
    /\ errors = {"email"}
    /\ isModalOpen
    /\ editingCustomer # <<>>
    /\ pendingSubmit = <<>>
    /\ toast = NoToast
    /\ Ids(data) = [i \in 1..InitialCustomers |-> i]
    /\ \A i \in DOMAIN data : data[i].tags # <<S_VIP>>

\* C29: closing the modal while a submission is in its delay cancels the
\* submission: a submission whose modal has been closed changes no record
\* when its delay ends.
C29_CloseCancelsSubmit ==
    [][(SubmitFires /\ ~isModalOpen) => data' = data]_vars

----------------------------------------------------------------------------
(* Query engine: specification *)

\* Inputs of the filter: records on the day the date inputs offer, the day
\* before and the day after, and one whose lastContacted is not a date.
QueryPeople ==
    {[name |-> FullName(<<"A", "l">>, <<"B", "o">>), email |-> <<"a", "@", "x">>,
      tags |-> <<S_Lead>>, lastContacted |-> DateText(Day0)],
     [name |-> FullName(<<"C", "y">>, <<"D", "e">>), email |-> <<"c", "@", "d">>,
      tags |-> <<S_Partner, S_Lead>>, lastContacted |-> DateText(Day0 - 1)],
     [name |-> FullName(<<"A", "l">>, <<"F", "a">>), email |-> <<"f", "@", "x">>,
      tags |-> <<S_Lead>>, lastContacted |-> JunkText],
     [name |-> FullName(<<"G", "i">>, <<"H", "a">>), email |-> <<"g", "@", "h">>,
      tags |-> <<S_Partner>>, lastContacted |-> DateText(Day0 + 1)]}

QueryStores ==
    {[i \in 1..InitialCustomers |->
        Customer(i, who[i].name, "avatar", who[i].email, "phone", who[i].tags,
                 who[i].lastContacted)]
     : who \in [1..InitialCustomers -> QueryPeople]}

\* Offsets of local time from UTC, in minutes.
Zones == {-300, 0, 120}

SearchInputs == {<<>>, <<"A", "L">>, <<"@", "D">>}

\* The component in use over a drawn store: preferences at their defaults
\* and saved, no filter set.
InitQuery ==
    /\ pc = "ready"
    /\ prefs = DefaultPrefs
    /\ prefsLoaded = TRUE
    /\ queued = DefaultPrefs
    /\ storage = Serialize(DefaultPrefs)
    /\ data \in QueryStores
    /\ searchQuery = <<>>
    /\ selectedIds = {}
    /\ nextId = InitialCustomers + 1
    /\ tz \in Zones
    /\ monthLabel = "quoted"
    /\ now = (Day0 + 2) * MinutesPerDay + 600
    /\ charts = ChartsMemo(data, now)
    /\ columns = Ids(data)
    /\ isModalOpen = FALSE
    /\ editingCustomer = <<>>
    /\ pendingSubmit = <<>>
    /\ errors = {}
    /\ inflight = <<>>
    /\ toast = NoToast
    /\ bootBlob = NoBlob
    /\ firstWrite = <<Serialize(DefaultPrefs)>>
    /\ ops = 0
    /\ budget = MaxQueryOps
    /\ reloads = 0

NextQuery ==
    \/ \E q \in SearchInputs : SetSearchQuery(q)
    \/ \E tag \in Range(AVAILABLE_TAGS) : SelectTagFilter(tag)
    \/ \E v \in DateInputs : SetDateStart(v)
    \/ \E v \in DateInputs : SetDateEnd(v)
    \/ ClearDateRange
    \/ clearFilters

SpecQuery == InitQuery /\ [][NextQuery]_vars

----------------------------------------------------------------------------
(* Query engine: properties *)

NoRange == [start |-> <<>>, end |-> <<>>]

DateFilterActive == prefs.dateRange # NoRange

\* C6: the filtered list contains only records of the store (it is the
\* store with records left out, order kept), and applying the same filter
\* state again, to its own result, yields the identical list.
C6_FilteredSubsetIdempotent ==
    /\ Range(filteredData) \subseteq Range(data)
    /\ filteredData = SelectSeq(data, LAMBDA c : c \in Range(filteredData))
    /\ FilteredData(filteredData, searchQuery, prefs.activeRoleFilter, prefs.dateRange)
         = filteredData

\* Search, tag and date range are all set and keep some records but not all.
C6_Witness ==
    /\ searchQuery # <<>>
    /\ prefs.activeRoleFilter # S_All
    /\ DateFilterActive
    /\ filteredData # <<>>
    /\ Len(filteredData) < Len(data)

\* start <= D <= end on calendar days, an empty bound being no bound.
DayInRange(day, range) ==
    /\ range.start = <<>> \/ range.start[1] <= day
    /\ range.end = <<>> \/ day <= range.end[1]

\* C7: with no search and no tag filter, a record whose lastContacted is
\* calendar day D is in the filtered list iff start <= D <= end on calendar
\* days (empty start or end unbounded), whatever the time-zone offset.
C7_InclusiveDayRange ==
    (searchQuery = <<>> /\ prefs.activeRoleFilter = S_All) =>
        \A i \in DOMAIN data :
            data[i].lastContacted.parses =>
                (data[i] \in Range(filteredData)
                    <=> DayInRange(data[i].lastContacted.day, prefs.dateRange))

\* The store with every unparseable lastContacted replaced by a date.
Redated(d) ==
    [i \in DOMAIN d |->
        IF d[i].lastContacted.parses THEN d[i]
        ELSE [d[i] EXCEPT !.lastContacted = DateText(Day0)]]

\* C8: while the date range has a start or an end, no record with an
\* unparseable lastContacted is in the filtered list; while both are empty,
\* the filtered list holds the same records it would hold if those records
\* had a date.
C8_UnparseableDate ==
    /\ DateFilterActive =>
          \A i \in DOMAIN data :
              ~data[i].lastContacted.parses => data[i] \notin Range(filteredData)
    /\ ~DateFilterActive =>
          Ids(filteredData) = Ids(FilteredData(Redated(data), searchQuery,
                                               prefs.activeRoleFilter, prefs.dateRange))

\* A record with an unparseable date that the search and the tag filter
\* let through, under a date range that keeps another record.
C8_Witness ==
    /\ DateFilterActive
    /\ filteredData # <<>>
    /\ \E i \in DOMAIN data :
          /\ ~data[i].lastContacted.parses
          /\ data[i] \in Range(FilteredData(data, searchQuery, prefs.activeRoleFilter, NoRange))

\* C21: the search, tag and date stages commute: applied to the store in
\* any of the six orders they yield the list the fixed order search, tag,
\* date yields.
C21_FiltersCommute ==
    LET q == searchQuery
        tag == prefs.activeRoleFilter
        range == prefs.dateRange
    IN /\ filteredData = DateStage(TagStage(SearchStage(data, q), tag), range)
       /\ filteredData = TagStage(DateStage(SearchStage(data, q), range), tag)
       /\ filteredData = DateStage(SearchStage(TagStage(data, tag), q), range)
       /\ filteredData = SearchStage(DateStage(TagStage(data, tag), range), q)
       /\ filteredData = TagStage(SearchStage(DateStage(data, range), q), tag)
       /\ filteredData = SearchStage(TagStage(DateStage(data, range), tag), q)

\* All three filters are set; the search and the date range each leave out
\* a record the other keeps.
C21_Witness ==
    /\ searchQuery # <<>>
    /\ prefs.activeRoleFilter # S_All
    /\ DateFilterActive
    /\ \E i, j \in DOMAIN data :
          /\ ~MatchesSearch(data[i], searchQuery)
          /\ MatchesDateRange(data[i], prefs.dateRange)
          /\ MatchesSearch(data[j], searchQuery)
          /\ ~MatchesDateRange(data[j], prefs.dateRange)

\* Characters a and b are the same letter in either case, or the same
\* character.
SameLetter(a, b) ==
    \/ a = b
    \/ \E k \in DOMAIN UpperChars :
          {a, b} \subseteq {UpperChars[k], LowerChars[k]}

\* needle occurs in hay at some position, letter case set aside.
OccursIgnoringCase(hay, needle) ==
    \E p \in 0..(Len(hay) - Len(needle)) :
        \A k \in DOMAIN needle : SameLetter(hay[p + k], needle[k])

PassesText(c, q) ==
    q = <<>> \/ OccursIgnoringCase(c.name, q) \/ OccursIgnoringCase(c.email, q)

\* C23: the text search passes a record iff the query occurs in its name
\* or in its email, letter case set aside; the empty query passes every
\* record.  With no tag and no date filter the filtered list is the store
\* restricted to those records; with them it holds no other record.
C23_TextSearch ==
    /\ \A i \in DOMAIN filteredData : PassesText(filteredData[i], searchQuery)
    /\ (prefs.activeRoleFilter = S_All /\ ~DateFilterActive) =>
          filteredData = SelectSeq(data, LAMBDA c : PassesText(c, searchQuery))
    /\ SearchStage(data, <<>>) = data

\* An upper-case query that one record passes by its lower-case email
\* alone and another record does not pass.
C23_Witness ==
    /\ searchQuery = <<"@", "D">>
    /\ prefs.activeRoleFilter = S_All
    /\ ~DateFilterActive
    /\ Len(filteredData) = 1
    /\ Len(data) > 1
    /\ ~OccursIgnoringCase(filteredData[1].name, searchQuery)

----------------------------------------------------------------------------
(* Charts: specification *)

\* Two generated customers that differ in tag and month of last contact.
ChartPeople ==
    {Person(<<"A", "l">>, <<"B", "o">>, <<"a", "@", "x">>, <<S_Lead>>, 3),
     Person(<<"C", "y">>, <<"D", "e">>, <<"c", "@", "d">>, <<S_Partner, S_VIP>>, 40)}

InitCharts == Mounted(NoBlob, 0, "quoted", Day0 * MinutesPerDay + 600, MaxChartOps, 0, 0)

FilterHandlers ==
    \/ \E q \in SearchInputs : SetSearchQuery(q)
    \/ \E tag \in Range(AVAILABLE_TAGS) : SelectTagFilter(tag)
    \/ \E tag \in {S_Lead, S_Partner, S_VIP} : handleChartFilter(tag)
    \/ \E v \in DateInputs : SetDateStart(v)
    \/ \E v \in DateInputs : SetDateEnd(v)
    \/ ClearDateRange
    \/ clearFilters

NextCharts ==
    \/ LoadEffect
    \/ SaveEffectOnMount
    \/ GenerateAndRender(ChartPeople)
    \/ FilterHandlers
    \/ StoreHandlers

SpecCharts == InitCharts /\ [][NextCharts]_vars

----------------------------------------------------------------------------
(* Charts: properties *)

FilterState == <<searchQuery, prefs.activeRoleFilter, prefs.dateRange>>

\* C9: the statistics and both tabulations are those of the full store
\* (total is the number of records, leads and partners count the records
\* of the whole store, the tabulations are those of the whole store), and
\* a step that changes the search query, the active tag or the date range
\* leaves all of them as they were.
C9_ChartsFromFullStore ==
    /\ [](pc = "ready" =>
            /\ charts.stats.total = Len(data)
            /\ charts.stats.leads
                 = Cardinality({i \in DOMAIN data : ArrayIncludes(data[i].tags, S_Lead)})
            /\ charts.stats.partners
                 = Cardinality({i \in DOMAIN data : ArrayIncludes(data[i].tags, S_Partner)})
            /\ charts = ChartsMemo(data, now))
    /\ [][FilterState' # FilterState => charts' = charts]_vars

\* A store mutation has happened and a filter hides a record.
C9_Witness ==
    /\ pc = "ready"
    /\ ops = MaxChartOps
    /\ Len(data) # InitialCustomers
    /\ Len(filteredData) < Len(data)
    /\ filteredData # <<>>

----------------------------------------------------------------------------
(* Statistics over time: specification *)

\* Generated customers last contacted 29, 30 and 31 days before today.
StatsPeople ==
    {Person(<<"A", "l">>, <<"B", "o">>, <<"a", "@", "x">>, <<S_Lead>>, 29),
     Person(<<"C", "y">>, <<"D", "e">>, <<"c", "@", "d">>, <<S_Lead>>, 30),
     Person(<<"G", "i">>, <<"H", "a">>, <<"g", "@", "h">>, <<S_Partner>>, 31)}

\* The page is opened at 00:00, at 10:00 or at 23:59 local time.
StatsTimes ==
    {Day0 * MinutesPerDay, Day0 * MinutesPerDay + 600, Day0 * MinutesPerDay + MinutesPerDay - 1}

InitStats == \E t \in StatsTimes : Mounted(NoBlob, 0, "quoted", t, MaxStatsOps, 0, 0)

NextStats ==
    \/ LoadEffect
    \/ SaveEffectOnMount
    \/ GenerateAndRender(StatsPeople)
    \/ Tick
    \/ \E id \in IdSet(data) : delete(id)

SpecStats == InitStats /\ [][NextStats]_vars

----------------------------------------------------------------------------
(* Statistics over time: properties *)

\* Whole calendar days from the day of lastContacted to the local day of t.
DaysBefore(c, t) == LocalDay(t) - c.lastContacted.day

\* C10: whenever the statistics are evaluated (a step that sets the store),
\* at whatever time of day, recentContacts is the number of records last
\* contacted at most 30 days before the evaluation day: a record dated
\* exactly 30 days before counts, one dated 31 days before does not.
C10_ThirtyDayWindow ==
    [][(pc' = "ready" /\ data' # data) =>
          charts'.stats.recentContacts
            = Cardinality({i \in DOMAIN data' : DaysBefore(data'[i], now') <= 30})]_vars

----------------------------------------------------------------------------
(* Aggregations: specification *)

S_7 == <<"7">>

\* Generated customers: one or two distinct tags, last contacted this month,
\* last January and last December.
AggPeople ==
    {Person(<<"A", "l">>, <<"B", "o">>, <<"a", "@", "x">>, <<S_Lead>>, 3),
     Person(<<"C", "y">>, <<"D", "e">>, <<"c", "@", "d">>, <<S_Partner, S_Lead>>, 250),
     Person(<<"G", "i">>, <<"H", "a">>, <<"g", "@", "h">>, <<S_VIP>>, 300)}

\* Imported files: a tags cell that repeats a tag, one with a tag that
\* reads as a number, and one with six distinct tags.
AggFiles ==
    {<<Row(0, <<"I", "o">>, <<>>, <<>>, <<>>, <<>>, "", "", <<"V", "I", "P", ",", "V", "I", "P">>, "")>>,
     <<Row(0, <<"J", "o">>, <<>>, <<>>, <<>>, <<>>, "", "", <<"N", "e", "w", ",", "7">>, "")>>,
     <<Row(0, <<"K", "o">>, <<>>, <<>>, <<>>, <<>>, "", "",
           <<"a", ",", "b", ",", "c", ",", "d", ",", "e", ",", "L", "e", "a", "d">>, "")>>}

\* How the runtime writes a month label and reads it back.
MonthLabels == {"quoted", "plain", "lenient"}

InitAgg ==
    \E label \in MonthLabels :
        Mounted(NoBlob, 0, label, Day0 * MinutesPerDay + 600, MaxAggOps, 0, 0)

NextAgg ==
    \/ LoadEffect
    \/ SaveEffectOnMount
    \/ GenerateAndRender(AggPeople)
    \/ \E id \in IdSet(data) : delete(id)
    \/ \E rows \in AggFiles : handleFileChange(rows)
    \/ \E k \in DOMAIN inflight : ImportComplete(k)
    \/ \E k \in DOMAIN inflight : ImportError(k)

SpecAgg == InitAgg /\ [][NextAgg]_vars

----------------------------------------------------------------------------
(* Aggregations: properties *)

\* The number of records of the store that carry the tag.
Carrying(tag) == Cardinality({i \in DOMAIN data : ArrayIncludes(data[i].tags, tag)})

AllTags == Range(TagScan(data))

\* The position at which the scan of the store first meets the tag.
FirstSeen(tag) ==
    LET scan == TagScan(data)
    IN CHOOSE k \in DOMAIN scan : scan[k] = tag /\ \A l \in 1..(k - 1) : scan[l] # tag

\* C11: each entry of the tag distribution counts the records that carry
\* its tag, the entries are in non-increasing order of count, there are at
\* most 5 of them (5 when the store has more than 5 distinct tags), each
\* tag appears once, and no tag left out has a higher count than one kept.
C11_TagDistribution ==
    pc = "ready" =>
        LET td == charts.tagData
        IN /\ \A i \in DOMAIN td : td[i].value = Carrying(td[i].name)
           /\ \A i, j \in DOMAIN td : i < j => td[i].value >= td[j].value
           /\ \A i, j \in DOMAIN td : td[i].name = td[j].name => i = j
           /\ Len(td) = (IF Cardinality(AllTags) < 5 THEN Cardinality(AllTags) ELSE 5)
           /\ \A tag \in AllTags \ {td[i].name : i \in DOMAIN td} :
                 \A i \in DOMAIN td : Carrying(tag) <= td[i].value

\* C12: of two entries of the tag distribution with equal counts, the one
\* whose tag the scan of the store meets first comes first.
C12_TieBreakFirstSeen ==
    pc = "ready" =>
        LET td == charts.tagData
        IN \A i, j \in DOMAIN td :
              (i < j /\ td[i].value = td[j].value)
                  => FirstSeen(td[i].name) < FirstSeen(td[j].name)

\* The records of the store whose lastContacted falls in the month.
InMonth(key) ==
    {k \in DOMAIN data :
        data[k].lastContacted.parses /\ MonthKey(data[k].lastContacted) = key}

\* C13: the activity series has one bucket per (month, year) of the records
\* with a parseable date, each counting the records of its month (so the
\* counts sum to the number of such records), in chronologically ascending
\* order.
C13_ActivityByMonth ==
    pc = "ready" =>
        LET ad == charts.activityData
        IN /\ \A i \in DOMAIN ad : ad[i].value = Cardinality(InMonth(ad[i].name))
           /\ \A i, j \in DOMAIN ad : ad[i].name = ad[j].name => i = j
           /\ \A k \in DOMAIN data :
                 data[k].lastContacted.parses =>
                     \E i \in DOMAIN ad : ad[i].name = MonthKey(data[k].lastContacted)
           /\ \A i, j \in DOMAIN ad :
                 i < j => ad[i].name.yy * 12 + ad[i].name.mon
                              < ad[j].name.yy * 12 + ad[j].name.mon

----------------------------------------------------------------------------
(* Deletion under filters: specification *)

\* Generated customers none of whom is a Partner.
DeletePeople ==
    {Person(<<"A", "l">>, <<"B", "o">>, <<"a", "@", "x">>, <<S_Lead>>, 3),
     Person(<<"G", "i">>, <<"H", "a">>, <<"g", "@", "h">>, <<S_VIP>>, 40)}

InitDelete == Mounted(NoBlob, 0, "quoted", Day0 * MinutesPerDay + 600, MaxDeleteOps, 0, 0)

NextDelete ==
    \/ LoadEffect
    \/ SaveEffectOnMount
    \/ GenerateAndRender(DeletePeople)
    \/ \E q \in SearchInputs : SetSearchQuery(q)
    \/ \E tag \in Range(AVAILABLE_TAGS) : SelectTagFilter(tag)
    \/ clearFilters
    \/ \E id \in IdSet(data) : toggleSelect(id)
    \/ ClearSelection
    \/ \E id \in IdSet(data) : delete(id)
    \/ handleBulkDelete

SpecDelete == InitDelete /\ [][NextDelete]_vars

----------------------------------------------------------------------------
(* Deletion under filters: properties *)

DeleteTexts == {"Customer deleted", "Customers deleted"}

\* A step of delete(id) or of the bulk delete.
DeleteStep ==
    /\ pc = "ready"
    /\ pc' = "ready"
    /\ toast'.text \in DeleteTexts
    /\ data' # data \/ toast' # toast

\* C16: a delete or bulk delete leaves exactly the prior store without the
\* targeted ids, the remaining records unchanged and in order; the targets
\* of a bulk delete are all selected ids, displayed or hidden by the
\* filter, and the selection is empty afterwards; delete(id) targets one
\* id and removes it from the selection.
C16_DeleteExact ==
    [][DeleteStep =>
          LET gone == IdSet(data) \ IdSet(data')
          IN /\ gone # {}
             /\ data' = SelectSeq(data, LAMBDA c : c.id \notin gone)
             /\ selectedIds' \cap gone = {}
             /\ IF toast'.text = "Customers deleted"
                THEN gone = selectedIds /\ selectedIds' = {}
                ELSE Cardinality(gone) = 1 /\ selectedIds' = selectedIds \ gone]_vars

\* A bulk delete under the Partner filter, which displays none of the
\* generated customers: the deleted record was selected and hidden.
C16_Witness ==
    /\ pc = "ready"
    /\ toast.text = "Customers deleted"
    /\ prefs.activeRoleFilter = S_Partner
    /\ Len(data) = InitialCustomers - 1
    /\ selectedIds = {}

----------------------------------------------------------------------------
(* Selection: specification *)

\* Two generated customers, one shown by the Lead filter and one by the
\* Partner filter.
SelectPeople ==
    {Person(<<"A", "l">>, <<"B", "o">>, <<"a", "@", "x">>, <<S_Lead>>, 3),
     Person(<<"C", "y">>, <<"D", "e">>, <<"c", "@", "d">>, <<S_Partner>>, 40)}

\* The form the user submits: a Lead.
SelectForms ==
    {FormData(<<"E", "d">>, <<"F", "a">>, <<"e", "@", "f", ".", "i", "o">>, "555", S_Lead)}

\* The file the user imports: one row, tagged Lead.
SelectFiles ==
    {<<Row(0, <<"G", "o">>, <<>>, <<>>, <<"g", "@", "o">>, <<>>, "777", "", S_Lead, "")>>}

InitSelect == Mounted(NoBlob, 0, "quoted", Day0 * MinutesPerDay + 600, MaxSelectOps, 0, 0)

NextSelect ==
    \/ LoadEffect
    \/ SaveEffectOnMount
    \/ GenerateAndRender(SelectPeople)
    \/ \E tag \in {S_All, S_Lead, S_Partner} : SelectTagFilter(tag)
    \/ clearFilters
    \/ \E id \in IdSet(data) : toggleSelect(id)
    \/ handleToggleAll
    \/ ClearSelection
    \/ OpenAddModal
    \/ \E id \in IdSet(data) : edit(id)
    \/ \E fd \in SelectForms : handleFormSubmit(fd)
    \/ handleModalSubmit
    \/ handleCloseModal
    \/ \E id \in IdSet(data) : delete(id)
    \/ handleBulkDelete
    \/ \E rows \in SelectFiles : handleFileChange(rows)
    \/ \E k \in DOMAIN inflight : ImportComplete(k)
    \/ \E k \in DOMAIN inflight : ImportError(k)

SpecSelect == InitSelect /\ [][NextSelect]_vars

----------------------------------------------------------------------------
(* Selection: properties *)

\* Position of the record with this id in the store.
PlaceOf(id) == CHOOSE i \in DOMAIN data : data[i].id = id

\* C22: the filtered list keeps the order of the store: two records that
\* both pass the filters are in the order they have in the store; a record
\* a step creates or imports comes before every record the store held.
C22_StoreOrderKept ==
    /\ [](\A i, j \in DOMAIN filteredData :
             i < j => PlaceOf(filteredData[i].id) < PlaceOf(filteredData[j].id))
    /\ [][\A i, j \in DOMAIN filteredData' :
             (filteredData'[i].id \notin IdSet(data) /\ filteredData'[j].id \in IdSet(data))
                 => i < j]_vars

\* Under the Lead filter the list shows a created or imported record ahead
\* of a generated one, with a record between them in the store left out.
C22_Witness ==
    /\ prefs.activeRoleFilter = S_Lead
    /\ Len(filteredData) = 2
    /\ Len(data) = 3
    /\ filteredData[1].id > InitialCustomers
    /\ filteredData[2] = data[3]

\* Every record of the filtered view is selected, and there is one.
ViewSelected == filteredData # <<>> /\ IdSet(filteredData) \subseteq selectedIds

\* C26: select-all is scoped to the filtered view: toggled while not every
\* record of the view is selected it makes the selection the ids of the
\* view, toggled while every record of a non-empty view is selected it
\* empties the selection.
C26_SelectAllScoped ==
    [][handleToggleAll =>
          selectedIds' = IF ViewSelected THEN {} ELSE IdSet(filteredData)]_vars

\* C27: the header checkbox is checked iff the filtered view is non-empty
\* and every record in it is selected.
C27_AllSelectedState == isAllSelected <=> ViewSelected

\* C28: the selection holds only ids of records of the store.
C28_SelectionInStore == selectedIds \subseteq IdSet(data)

\* A selection over a store that has lost a record and gained one since the
\* component was mounted.
C28_Witness ==
    /\ selectedIds # {}
    /\ \E id \in 1..InitialCustomers : id \notin IdSet(data)
    /\ \E id \in IdSet(data) : id > InitialCustomers /\ id \in selectedIds

----------------------------------------------------------------------------
(* Edit form: specification *)

\* Generated customers with one tag and with two, with names of two words
\* and of three.
EditPeople ==
    {Person(<<"A", "l">>, <<"B", "o">>, <<"a", "@", "x", ".", "i", "o">>, <<S_Lead>>, 3),
     Person(<<"C", "y">>, <<"D", "e", " ", "E", "l">>, <<"c", "@", "d", ".", "i", "o">>,
            <<S_Partner, S_VIP>>, 40)}

InitEdit == Mounted(NoBlob, 0, "quoted", Day0 * MinutesPerDay + 600, MaxEditOps, 0, 0)

NextEdit ==
    \/ LoadEffect
    \/ SaveEffectOnMount
    \/ GenerateAndRender(EditPeople)
    \/ \E id \in IdSet(data) : edit(id)
    \/ SubmitUnchanged
    \/ handleModalSubmit
    \/ handleCloseModal
    \/ \E id \in IdSet(data) : toggleSelect(id)

SpecEdit == InitEdit /\ [][NextEdit]_vars

----------------------------------------------------------------------------
(* Edit form: properties *)

\* C30: an edit form submitted as it was opened leaves its record with the
\* name and the tag list it had.
C30_UnchangedEditKeepsRecord ==
    [][(SubmitFires /\ pendingSubmit[1].editing # <<>>) =>
          \A i \in DOMAIN data :
              (/\ data[i] = pendingSubmit[1].editing[1]
               /\ pendingSubmit[1].form = InitialData(data[i]))
                  => (data'[i].name = data[i].name /\ data'[i].tags = data[i].tags)]_vars

====
